---- MODULE Spec2Model ----
(***************************************************************************)
(* Escrow payment lifecycle of one booking: createPaymentIntent,           *)
(* confirmPayment, captureAndTransferPayment, refundPayment and the Stripe *)
(* webhook endpoint, with the booking document, the Payment ledger         *)
(* document, the payee record and the payment processor as state.          *)
(*                                                                         *)
(* Every handler is a sequence of steps, one step per await of the code:   *)
(* a step is the effect of the awaited call followed by the synchronous    *)
(* code up to the next await.  Under Spec one request runs at a time;      *)
(* under SpecConc up to NProcs requests overlap.                           *)
(*                                                                         *)
(* Money kept by the application is in major units (whole numbers here);   *)
(* the processor counts minor units.  Identifiers are naturals, 0 meaning  *)
(* "undefined"; timestamps are booleans (set or not set).                  *)
(***************************************************************************)
EXTENDS Integers, Sequences, FiniteSets, TLC

\* ---------------------------------------------------------------- bounds
Units == 1                \* the quote is for 2 * Units major units
MaxIntents == 2           \* authorizations the processor will ever create
MaxClock == 2             \* readings of Date.now() range over 1..MaxClock
NProcs == 2               \* request slots (overlapping requests under SpecConc)
MaxDeliveries == 2        \* events the processor delivers, redeliveries aside
MaxTimeouts == 1          \* processor calls that take effect and lose their answer

Procs == 1..NProcs
Total == 2 * Units        \* totalWithVat of the booking (VAT collaborator: rate 0)
RefundAmounts == 0..(Total + 1)   \* req.body.amount; 0 = not given

\* STRIPE_CONFIG.commissionPercent (services/stripe)
CommissionPercent == 50
\* webhooks.ts: capacity of the dedup set
MAX_PROCESSED_EVENTS == 10000

VARIABLES
    booking,          \* the Booking document: status, professional, payment summary
    ledger,           \* the Payment document of the booking (Ledger Record)
    payee,            \* the professional's User.stripe sub-document
    stripe,           \* the processor: intents, idempotency cache, transfers, refunds
    events,           \* events the processor has emitted (deliverable any number of times)
    processedEvents,  \* webhooks.ts dedup set, in insertion order
    now,              \* last reading of Date.now()
    proc,             \* per request slot: position and in-memory documents
    result            \* per request slot: the response of its last request

vars == <<booking, ledger, payee, stripe, events, processedEvents, now, proc, result>>

\* ------------------------------------------------------------- documents
NoPayment ==
    [status |-> "none", stripePaymentIntentId |-> 0, stripeClientSecret |-> 0,
     stripeChargeId |-> 0, stripeTransferId |-> 0, capturedAt |-> FALSE,
     transferredAt |-> FALSE, totalWithVat |-> 0, platformCommission |-> 0,
     professionalPayout |-> 0, refundSource |-> "none", refundNotes |-> "none"]

NoMetadata == [transferFailed |-> FALSE, attemptedTransferCurrency |-> "none",
               attemptedTransferAmount |-> 0]

NoLedger ==
    [exists |-> FALSE, status |-> "none", stripePaymentIntentId |-> 0,
     stripeClientSecret |-> 0, stripeChargeId |-> 0, stripeTransferId |-> 0,
     capturedAt |-> FALSE, transferredAt |-> FALSE, totalWithVat |-> 0,
     platformCommission |-> 0, professionalPayout |-> 0,
     metadata |-> NoMetadata, refunds |-> <<>>]

HasPayment(doc) == doc.payment.status # "none"

RECURSIVE SumAmounts(_)
SumAmounts(s) == IF s = <<>> THEN 0 ELSE Head(s).amount + SumAmounts(Tail(s))

\* (existingPayment.refunds || []).reduce((sum, r) => sum + (r.amount || 0), 0)
previousRefundTotal(l) == SumAmounts(l.refunds)

\* utils/payment convertToStripeAmount: major units to minor units
convertToStripeAmount(a) == a * 100

\* dispute.amount / 100, charge.amount_refunded / 100: minor units to major units
toMajor(m) == m \div 100

\* ------------------------------------------------------------- processor
\* utils/payment generateIdempotencyKey({bookingId, operation, timestamp?});
\* one booking, so the key is the operation and the timestamp (0: none)
generateIdempotencyKey(operation, timestamp) == <<operation, timestamp>>

KeyUsed(s, key) == \E e \in s.idem : e.key = key
KeyResponse(s, key) == (CHOOSE e \in s.idem : e.key = key).resp
Remember(s, key, resp) == [s EXCEPT !.idem = @ \cup {[key |-> key, resp |-> resp]}]

\* id and client secret of an authorization
ClientSecretOf(id) == id + 10
ChargeOf(id) == id

NoStripe ==
    [intents |-> <<>>,        \* status of authorization i
     idem |-> {},             \* idempotency keys seen, with the cached response
     captures |-> 0,          \* captures performed
     transfers |-> <<>>,      \* transfers created: amount, currency, reversed
     refunded |-> 0,          \* minor units refunded on the charge
     refunds |-> 0,           \* refund objects created
     dispute |-> "none",      \* none, open, won, lost
     timeouts |-> 0]          \* calls that took effect and whose answer was lost

Event(kind, obj, info) == [kind |-> kind, obj |-> obj, info |-> info]
NoEvent == Event("none", 0, 0)

\* An authorization of another booking, held at the processor
ForeignIntent == MaxIntents + 1

\* The answer of a processor call: the processor afterwards, the identifier
\* it returns, the events it emits, and whether the call was accepted
Answer(s, id, ev) == [ok |-> TRUE, s |-> s, id |-> id, ev |-> ev]
Refused(s) == [ok |-> FALSE, s |-> s, id |-> 0, ev |-> {}]

\* stripe.paymentIntents.create(..., {idempotencyKey}); a key seen before
\* returns the cached response and creates nothing
PaymentIntentsCreate(s, key) ==
    IF KeyUsed(s, key) THEN Answer(s, KeyResponse(s, key), {})
    ELSE IF Len(s.intents) < MaxIntents
    THEN LET id == Len(s.intents) + 1 IN
         Answer(Remember([s EXCEPT !.intents = Append(@, "requires_payment_method")],
                         key, id), id, {})
    ELSE Refused(s)

IntentStatus(s, id) ==
    IF id \in 1..Len(s.intents) THEN s.intents[id]
    ELSE IF id = ForeignIntent THEN "requires_capture" ELSE "unknown"

\* stripe.paymentIntents.capture(id, {}, {idempotencyKey})
PaymentIntentsCapture(s, id, key) ==
    IF KeyUsed(s, key) THEN Answer(s, KeyResponse(s, key), {})
    ELSE IF id \in 1..Len(s.intents) /\ s.intents[id] = "requires_capture"
    THEN Answer(Remember([s EXCEPT !.intents[id] = "succeeded",
                                   !.captures = @ + 1], key, id),
                id, {Event("charge.captured", id, 0)})
    ELSE Refused(s)

\* stripe.paymentIntents.cancel(id)
PaymentIntentsCancel(s, id) ==
    IF id \in 1..Len(s.intents)
       /\ s.intents[id] \in {"requires_payment_method", "requires_capture"}
    THEN Answer([s EXCEPT !.intents[id] = "canceled"], id,
                {Event("payment_intent.canceled", id, 0)})
    ELSE Refused(s)

\* stripe.transfers.create({amount, currency, destination, source_transaction},
\* {idempotencyKey})
TransfersCreate(s, amount, currency, source, key) ==
    IF KeyUsed(s, key) THEN Answer(s, KeyResponse(s, key), {})
    ELSE LET id == Len(s.transfers) + 1 IN
         Answer(Remember([s EXCEPT !.transfers = Append(@,
                              [amount |-> amount, currency |-> currency,
                               source |-> source, reversed |-> 0])], key, id),
                id, {Event("transfer.created", id, 0)})

\* stripe.transfers.createReversal(id, {amount}); amount 0: what is left
TransfersCreateReversal(s, id, amount) ==
    IF id \in 1..Len(s.transfers)
    THEN LET left == s.transfers[id].amount - s.transfers[id].reversed
             amt == IF amount = 0 THEN left ELSE amount IN
         IF amt >= 1 /\ amt <= left
         THEN Answer([s EXCEPT !.transfers[id].reversed = @ + amt], id,
                     {Event("transfer.reversed", id, 0)})
         ELSE Refused(s)
    ELSE Refused(s)

\* stripe.refunds.create({payment_intent, amount}, {idempotencyKey});
\* amount 0: what is left of the charge
RefundsCreate(s, id, amount, key) ==
    IF KeyUsed(s, key) THEN Answer(s, KeyResponse(s, key), {})
    ELSE IF id \in 1..Len(s.intents) /\ s.intents[id] = "succeeded"
    THEN LET left == convertToStripeAmount(Total) - s.refunded
             amt == IF amount = 0 THEN left ELSE amount
             rid == s.refunds + 1 IN
         IF amt >= 1 /\ amt <= left
         THEN Answer(Remember([s EXCEPT !.refunded = @ + amt, !.refunds = rid],
                              key, rid),
                     rid, {Event("charge.refunded", id, s.refunded + amt)})
         ELSE Refused(s)
    ELSE Refused(s)

\* ------------------------------------------------------- request slots
NoDoc == [status |-> "none", direct |-> FALSE, payment |-> NoPayment]

IdleProc ==
    [pc |-> "idle", op |-> "none",
     doc |-> NoDoc,          \* the booking as read, with the handler's assignments
     amount |-> 0,           \* req.body.amount
     ev |-> NoEvent,         \* the webhook event
     pi |-> 0,               \* the authorization returned by the processor
     rf |-> 0,               \* the refund returned by the processor
     tAmount |-> 0, tCurrency |-> "none",   \* transferAmount, transferCurrency
     dirty |-> {}]           \* paths of doc modified since it was read or saved

NoResult == [op |-> "none", code |-> "none", clientSecret |-> 0]
Response(op, code) == [op |-> op, code |-> code, clientSecret |-> 0]

Users == {"customer", "admin", "other"}

\* The requests of the lifecycle name the booking and come from its
\* customer; refunds also from an administrator
Lookups == {TRUE}
Requesters == {"customer"}

Override(base, over) ==
    [f \in DOMAIN base \cup DOMAIN over |->
        IF f \in DOMAIN over THEN over[f] ELSE base[f]]

\* Payment.findOneAndUpdate({booking}, fields, {upsert}): sets the given
\* fields; creates the document only with upsert
findOneAndUpdate(l, fields, upsert) ==
    IF l.exists \/ upsert THEN Override(l, Override(fields, [exists |-> TRUE])) ELSE l

\* booking.quote.amount, the net amount; the VAT collaborator adds nothing here
QuoteAmount == Total

\* the fields of buildPaymentUpsertBase that the model keeps:
\* totalWithVat: paymentSummary.totalWithVat || amount
buildPaymentUpsertBase(doc, overrides) ==
    Override([totalWithVat |-> IF doc.payment.totalWithVat # 0
                               THEN doc.payment.totalWithVat ELSE QuoteAmount,
              platformCommission |-> doc.payment.platformCommission,
              professionalPayout |-> doc.payment.professionalPayout],
             overrides)

\* Assignments to the in-memory booking.  Mongoose marks a path modified
\* when the assigned value differs from the one it holds (a new Date()
\* always does), and save() writes the modified paths only.
Timestamps == {"capturedAt", "transferredAt"}

SetPayment(pr, fields) ==
    [pr EXCEPT !.doc.payment = Override(@, fields),
               !.dirty = @ \cup {f \in DOMAIN fields :
                                   f \in Timestamps \/ fields[f] # pr.doc.payment[f]}]

SetStatus(pr, st) ==
    [pr EXCEPT !.doc.status = st,
               !.dirty = @ \cup (IF st # pr.doc.status THEN {"status@booking"} ELSE {})]

\* booking.payment = {...}: the whole summary is replaced
ReplacePayment(pr, pay) ==
    [pr EXCEPT !.doc.payment = pay, !.dirty = @ \cup DOMAIN pay]

\* booking.save(): the booking document after the modified paths are written
save(b, pr) ==
    [status |-> IF "status@booking" \in pr.dirty THEN pr.doc.status ELSE b.status,
     direct |-> b.direct,
     payment |-> [f \in DOMAIN b.payment |->
                    IF f \in pr.dirty THEN pr.doc.payment[f] ELSE b.payment[f]]]

Saved(pr, pc) == [pr EXCEPT !.dirty = {}, !.pc = pc]

\* A response is sent the moment the handler returns: nothing else happens
\* while a slot holds a response
Responding == \E q \in Procs : proc[q].pc = "done"

\* slot p is at step pc of its handler
At(p, pc) == proc[p].pc = pc /\ ~Responding

\* the handler returns: the slot holds the response, and what the handler
\* had in hand, until the response is collected
Finish(p, res) ==
    /\ proc' = [proc EXCEPT ![p] = [@ EXCEPT !.pc = "done", !.op = res.op,
                                              !.dirty = {}]]
    /\ result' = [result EXCEPT ![p] = res]

\* the response has been sent; the slot is free for the next request
Return(p) ==
    /\ proc[p].pc = "done"
    /\ proc' = [proc EXCEPT ![p] = IdleProc]
    /\ result' = [result EXCEPT ![p] = NoResult]
    /\ UNCHANGED <<booking, ledger, payee, stripe, events, processedEvents, now>>

Goto(p, next) ==
    /\ proc' = [proc EXCEPT ![p] = next]
    /\ UNCHANGED result

\* A processor call ends in one of three ways: answered; failed with nothing
\* done; or done at the processor with the answer lost (a timeout)
Outcomes == {"ok", "error", "timeout"}
Effective(a, outcome) == a.ok /\ outcome \in {"ok", "timeout"}
Answered(a, outcome) == a.ok /\ outcome = "ok"
Apply(a, outcome) ==
    /\ outcome = "timeout" => a.ok /\ stripe.timeouts < MaxTimeouts
    /\ stripe' = IF outcome = "timeout" THEN [a.s EXCEPT !.timeouts = @ + 1]
                 ELSE IF Effective(a, outcome) THEN a.s ELSE stripe
    /\ events' = IF Effective(a, outcome) THEN events \cup a.ev ELSE events

\* ---------------------------------------------------------------- Init
Init ==
    /\ booking \in {[status |-> "quote_accepted", direct |-> d, payment |-> NoPayment]
                     : d \in BOOLEAN}
    /\ ledger = NoLedger
    /\ payee = [accountId |-> TRUE, chargesEnabled |-> TRUE, payoutsEnabled |-> TRUE,
                accountStatus |-> "active"]
    /\ stripe = NoStripe
    /\ events = {}
    /\ processedEvents = <<>>
    /\ now = 0
    /\ proc = [p \in Procs |-> IdleProc]
    /\ result = [p \in Procs |-> NoResult]

\* ------------------------------------------------ createPaymentIntent
\* a key that differs from one call to the next
CreateIntentKey_Fresh == generateIdempotencyKey("payment-intent", Len(stripe.intents) + 1)

\* idempotencyKey of stripe.paymentIntents.create
CreateIntentKey == generateIdempotencyKey("payment-intent", 0)

\* a reuse that returns the authorization's id for its secret
ReusedSecret_ReturnsId(doc) == doc.payment.stripePaymentIntentId

\* the client secret returned for a pending payment
ReusedSecret(doc) == doc.payment.stripeClientSecret

\* a check that lets a pending payment through
NeedsIntent_IgnoresPending(doc) ==
    ~ (doc.payment.stripePaymentIntentId # 0 /\ doc.payment.stripeClientSecret # 0
       /\ doc.payment.status \in {"authorized", "completed"})

\* a check that lets a completed payment through
NeedsIntent_IgnoresCompleted(doc) ==
    ~ (doc.payment.stripePaymentIntentId # 0 /\ doc.payment.stripeClientSecret # 0
       /\ doc.payment.status \in {"authorized", "pending"})

\* createPaymentIntent asks the processor for an authorization
NeedsIntent(doc) ==
    ~ (doc.payment.stripePaymentIntentId # 0 /\ doc.payment.stripeClientSecret # 0
       /\ doc.payment.status \in {"authorized", "completed", "pending"})

platformCommission(totalAmount) == (totalAmount * CommissionPercent) \div 100
professionalPayout(totalAmount) == totalAmount - platformCommission(totalAmount)

\* booking.payment = {...} of createPaymentIntent
PaymentOf(id, totalAmount, commission, payout) ==
    [NoPayment EXCEPT !.status = "pending", !.stripePaymentIntentId = id,
                      !.stripeClientSecret = ClientSecretOf(id),
                      !.totalWithVat = totalAmount,
                      !.platformCommission = commission,
                      !.professionalPayout = payout]

NewPayment(id) ==
    PaymentOf(id, Total, platformCommission(Total), professionalPayout(Total))

\* Booking.findById and every check before the processor call
CPI_Read(p, found, user) ==
    /\ At(p, "idle")
    /\ UNCHANGED <<booking, ledger, payee, stripe, events, processedEvents, now>>
    /\ LET doc == booking
           R(code) == Response("createPaymentIntent", code) IN
       IF ~found THEN Finish(p, R("BOOKING_NOT_FOUND"))
       ELSE IF user # "customer" THEN Finish(p, R("UNAUTHORIZED"))
       ELSE IF ~NeedsIntent(doc) /\ doc.payment.status \in {"authorized", "completed"}
       THEN Finish(p, R("PAYMENT_ALREADY_PROCESSED"))
       ELSE IF ~NeedsIntent(doc)
       THEN Finish(p, [R("success") EXCEPT !.clientSecret = ReusedSecret(doc)])
       ELSE IF doc.status \notin {"quote_accepted", "payment_pending", "booked"}
       THEN Finish(p, R("NO_QUOTE"))
       ELSE IF ~payee.accountId THEN Finish(p, R("PROFESSIONAL_NO_STRIPE"))
       ELSE IF ~payee.chargesEnabled THEN Finish(p, R("PROFESSIONAL_STRIPE_NOT_READY"))
       ELSE Goto(p, [IdleProc EXCEPT !.pc = "cpi_create", !.op = "createPaymentIntent",
                                     !.doc = doc])

\* stripe.paymentIntents.create, then booking.payment = {...}
CPI_Create(p, outcome) ==
    /\ At(p, "cpi_create")
    /\ UNCHANGED <<booking, ledger, payee, processedEvents, now>>
    /\ LET a == PaymentIntentsCreate(stripe, CreateIntentKey) IN
       /\ Apply(a, outcome)
       /\ IF Answered(a, outcome)
          THEN Goto(p, [SetStatus(ReplacePayment(proc[p], NewPayment(a.id)),
                                  "payment_pending")
                           EXCEPT !.pc = "cpi_save", !.pi = a.id])
          ELSE Finish(p, Response("createPaymentIntent", "STRIPE_ERROR"))

\* booking.save()
CPI_SaveBooking(p) ==
    /\ At(p, "cpi_save")
    /\ booking' = save(booking, proc[p])
    /\ Goto(p, Saved(proc[p], "cpi_ledger"))
    /\ UNCHANGED <<ledger, payee, stripe, events, processedEvents, now>>

\* Payment.findOneAndUpdate(..., {upsert: true}) and the successful return
CPI_SaveLedger(p) ==
    /\ At(p, "cpi_ledger")
    /\ ledger' = findOneAndUpdate(ledger,
           buildPaymentUpsertBase(proc[p].doc,
               [status |-> "pending", totalWithVat |-> Total,
                platformCommission |-> platformCommission(Total),
                professionalPayout |-> professionalPayout(Total),
                stripePaymentIntentId |-> proc[p].pi,
                stripeClientSecret |-> ClientSecretOf(proc[p].pi),
                metadata |-> NoMetadata]), TRUE)
    /\ Finish(p, [Response("createPaymentIntent", "success")
                     EXCEPT !.clientSecret = ClientSecretOf(proc[p].pi)])
    /\ UNCHANGED <<booking, payee, stripe, events, processedEvents, now>>

\* the calls that name a booking in lookups and come from a user in users
createPaymentIntentBy(p, lookups, users) ==
    \/ \E found \in lookups, user \in users : CPI_Read(p, found, user)
    \/ \E outcome \in Outcomes : CPI_Create(p, outcome)
    \/ CPI_SaveBooking(p)
    \/ CPI_SaveLedger(p)

createPaymentIntent(p) == createPaymentIntentBy(p, Lookups, Requesters)

\* ----------------------------------------------------- confirmPayment
\* a confirmation that takes any answer of the processor for a held
\* authorization
CP_Retrieve_AnyStatus(p, outcome) ==
    /\ At(p, "cp_retrieve")
    /\ UNCHANGED <<booking, ledger, payee, stripe, events, processedEvents, now>>
    /\ LET st == IntentStatus(stripe, proc[p].pi)
           R(code) == Response("confirmPayment", code) IN
       IF outcome # "ok" \/ st = "unknown" \/ ~HasPayment(proc[p].doc)
       THEN Finish(p, R("STRIPE_ERROR"))
       ELSE Goto(p, [SetStatus(SetPayment(proc[p],
                         [status |-> "authorized",
                          stripeChargeId |-> ChargeOf(proc[p].pi)]), "booked")
                     EXCEPT !.pc = "cp_save"])

IntentArgs == {1, ForeignIntent}      \* req.body.paymentIntentId

\* Booking.findById and the checks before stripe.paymentIntents.retrieve
CP_Read(p, found, user, paymentIntentId) ==
    /\ At(p, "idle")
    /\ UNCHANGED <<booking, ledger, payee, stripe, events, processedEvents, now>>
    /\ LET doc == booking
           R(code) == Response("confirmPayment", code) IN
       IF ~found THEN Finish(p, R("BOOKING_NOT_FOUND"))
       ELSE IF user # "customer" THEN Finish(p, R("UNAUTHORIZED"))
       ELSE IF doc.payment.status \in {"authorized", "completed"}
       THEN Finish(p, R("alreadyProcessed"))
       ELSE IF doc.payment.stripePaymentIntentId # 0
               /\ doc.payment.stripePaymentIntentId # paymentIntentId
       THEN Finish(p, R("PAYMENT_INTENT_MISMATCH"))
       ELSE Goto(p, [IdleProc EXCEPT !.pc = "cp_retrieve", !.op = "confirmPayment",
                                     !.doc = doc, !.pi = paymentIntentId])

\* stripe.paymentIntents.retrieve and the assignments that follow it;
\* booking.payment!.status throws when the booking has no payment
CP_Retrieve(p, outcome) ==
    /\ At(p, "cp_retrieve")
    /\ UNCHANGED <<booking, ledger, payee, stripe, events, processedEvents, now>>
    /\ LET st == IntentStatus(stripe, proc[p].pi)
           R(code) == Response("confirmPayment", code) IN
       IF outcome # "ok" \/ st = "unknown" THEN Finish(p, R("STRIPE_ERROR"))
       ELSE IF st = "requires_capture"
       THEN IF ~HasPayment(proc[p].doc) THEN Finish(p, R("STRIPE_ERROR"))
            ELSE Goto(p, [SetStatus(SetPayment(proc[p],
                              [status |-> "authorized",
                               stripeChargeId |-> ChargeOf(proc[p].pi)]), "booked")
                          EXCEPT !.pc = "cp_save"])
       ELSE Finish(p, R("awaiting_webhook"))

\* booking.save()
CP_SaveBooking(p) ==
    /\ At(p, "cp_save")
    /\ booking' = save(booking, proc[p])
    /\ Goto(p, Saved(proc[p], "cp_ledger"))
    /\ UNCHANGED <<ledger, payee, stripe, events, processedEvents, now>>

\* Payment.findOneAndUpdate (no upsert) and the response
CP_SaveLedger(p) ==
    /\ At(p, "cp_ledger")
    /\ ledger' = findOneAndUpdate(ledger,
           buildPaymentUpsertBase(proc[p].doc,
               [status |-> "authorized", stripePaymentIntentId |-> proc[p].pi,
                stripeChargeId |-> ChargeOf(proc[p].pi)]), FALSE)
    /\ Finish(p, Response("confirmPayment", "authorized"))
    /\ UNCHANGED <<booking, payee, stripe, events, processedEvents, now>>

confirmPayment(p) ==
    \/ \E found \in Lookups, user \in Requesters, id \in IntentArgs :
          CP_Read(p, found, user, id)
    \/ \E outcome \in {"ok", "error"} : CP_Retrieve(p, outcome)
    \/ CP_SaveBooking(p)
    \/ CP_SaveLedger(p)

\* ------------------------------------------- captureAndTransferPayment
CaptureKey == generateIdempotencyKey("capture", 0)

\* a transfer key that differs from one call to the next
TransferKey_Fresh == generateIdempotencyKey("transfer", Len(stripe.transfers) + 1)

TransferKey == generateIdempotencyKey("transfer", 0)

\* What stripe.charges.retrieve reports of the settlement: nothing (the call
\* fails), the booking currency, or another currency at another amount
Settled(ok, currency, amount) == [ok |-> ok, currency |-> currency, amount |-> amount]
Settlements ==
    {Settled(FALSE, "none", 0),
     Settled(TRUE, "eur", convertToStripeAmount(Total)),
     Settled(TRUE, "usd", (convertToStripeAmount(Total) * 13) \div 12)}

\* Math.round(n / d) for n >= 0, d > 0
RoundDiv(n, d) == (2 * n + d) \div (2 * d)

Max(a, b) == IF a >= b THEN a ELSE b
Min(a, b) == IF a <= b THEN a ELSE b

\* payoutMajorAmount: professionalPayout ?? totalWithVat ?? amount ?? 0
payoutMajorAmount(doc) == doc.payment.professionalPayout

\* a transfer of the booking-currency payout whatever the settlement was
transferAmount_Unsettled(doc, settled) ==
    convertToStripeAmount(payoutMajorAmount(doc))

\* transferAmount: the payout in minor units, or, when the balance
\* transaction reports a positive amount,
\* max(1, round(amount * clamp(payout / bookingTotal, 0, 1)))
transferAmount(doc, settled) ==
    IF settled.ok /\ settled.amount > 0
    THEN LET payout == payoutMajorAmount(doc)
             bookingTotal == doc.payment.totalWithVat IN
         IF bookingTotal > 0
         THEN Max(1, RoundDiv(settled.amount * Max(0, Min(payout, bookingTotal)),
                              bookingTotal))
         ELSE Max(1, settled.amount)
    ELSE convertToStripeAmount(payoutMajorAmount(doc))

transferCurrency(settled) == IF settled.ok THEN settled.currency ELSE "eur"

\* a precondition check that does not look at the payment status
CT_Read_AnyStatus(p, found) ==
    /\ At(p, "idle")
    /\ UNCHANGED <<booking, ledger, payee, stripe, events, processedEvents, now>>
    /\ LET doc == booking
           R(code) == Response("captureAndTransferPayment", code) IN
       IF ~found THEN Finish(p, R("BOOKING_NOT_FOUND"))
       ELSE IF doc.payment.stripePaymentIntentId = 0 THEN Finish(p, R("NO_PAYMENT"))
       ELSE Goto(p, [IdleProc EXCEPT !.pc = "ct_capture", !.doc = doc,
                                     !.op = "captureAndTransferPayment"])

\* Booking.findById(...).populate('professional') and the precondition checks
CT_Read(p, found) ==
    /\ At(p, "idle")
    /\ UNCHANGED <<booking, ledger, payee, stripe, events, processedEvents, now>>
    /\ LET doc == booking
           R(code) == Response("captureAndTransferPayment", code) IN
       IF ~found THEN Finish(p, R("BOOKING_NOT_FOUND"))
       ELSE IF doc.payment.stripePaymentIntentId = 0 THEN Finish(p, R("NO_PAYMENT"))
       ELSE IF doc.payment.status # "authorized" THEN Finish(p, R("INVALID_STATUS"))
       ELSE Goto(p, [IdleProc EXCEPT !.pc = "ct_capture", !.doc = doc,
                                     !.op = "captureAndTransferPayment"])

\* stripe.paymentIntents.capture, then capturedAt and stripeChargeId are set
CT_Capture(p, outcome) ==
    /\ At(p, "ct_capture")
    /\ UNCHANGED <<booking, ledger, payee, processedEvents, now>>
    /\ LET a == PaymentIntentsCapture(stripe, proc[p].doc.payment.stripePaymentIntentId,
                                      CaptureKey) IN
       /\ Apply(a, outcome)
       /\ IF Answered(a, outcome)
          THEN Goto(p, [SetPayment(proc[p], [capturedAt |-> TRUE,
                                             stripeChargeId |-> ChargeOf(a.id)])
                          EXCEPT !.pc = "ct_save_capture"])
          ELSE Finish(p, Response("captureAndTransferPayment", "STRIPE_ERROR"))

\* a capture that is not recorded before the transfer
CT_SaveCapture_Skips(p) ==
    /\ At(p, "ct_save_capture")
    /\ Goto(p, [proc[p] EXCEPT !.pc = "ct_inspect"])
    /\ UNCHANGED <<booking, ledger, payee, stripe, events, processedEvents, now>>

\* booking.save() right after the capture
CT_SaveCapture(p) ==
    /\ At(p, "ct_save_capture")
    /\ booking' = save(booking, proc[p])
    /\ Goto(p, Saved(proc[p], "ct_inspect"))
    /\ UNCHANGED <<ledger, payee, stripe, events, processedEvents, now>>

\* a catch block that leaves the status as it was
TransferFailed_KeepsStatus(pr) ==
    [SetPayment(pr, [refundNotes |-> "transfer_failed"]) EXCEPT !.pc = "ct_fail_save"]

\* the assignments of the catch (transferError) block
TransferFailed(pr) ==
    [SetPayment(pr, [status |-> "completed", refundNotes |-> "transfer_failed"])
        EXCEPT !.pc = "ct_fail_save"]

\* stripe.charges.retrieve and the transfer amount; reading
\* professional.stripe.accountId for the transfer request throws inside the
\* inner try when the booking has no professional of its own
CT_Inspect(p, settled) ==
    /\ At(p, "ct_inspect")
    /\ UNCHANGED <<booking, ledger, payee, stripe, events, processedEvents, now>>
    /\ LET pr == [proc[p] EXCEPT !.tAmount = transferAmount(proc[p].doc, settled),
                                 !.tCurrency = transferCurrency(settled)] IN
       IF proc[p].doc.direct
       THEN Goto(p, [pr EXCEPT !.pc = "ct_transfer"])
       ELSE Goto(p, TransferFailed(pr))

\* stripe.transfers.create
CT_Transfer(p, outcome) ==
    /\ At(p, "ct_transfer")
    /\ UNCHANGED <<booking, ledger, payee, processedEvents, now>>
    /\ LET a == TransfersCreate(stripe, proc[p].tAmount, proc[p].tCurrency,
                                proc[p].doc.payment.stripeChargeId, TransferKey) IN
       /\ Apply(a, outcome)
       /\ IF Answered(a, outcome)
          THEN Goto(p, [SetPayment(proc[p], [status |-> "completed",
                                             stripeTransferId |-> a.id,
                                             transferredAt |-> TRUE])
                          EXCEPT !.pc = "ct_ok_save"])
          ELSE Goto(p, TransferFailed(proc[p]))

\* booking.save() of the catch block
CT_FailSaveBooking(p) ==
    /\ At(p, "ct_fail_save")
    /\ booking' = save(booking, proc[p])
    /\ Goto(p, Saved(proc[p], "ct_fail_ledger"))
    /\ UNCHANGED <<ledger, payee, stripe, events, processedEvents, now>>

\* the ledger fields written when the transfer failed
TransferFailedFields(pr) ==
    buildPaymentUpsertBase(pr.doc,
        [status |-> "completed", capturedAt |-> pr.doc.payment.capturedAt,
         stripeChargeId |-> pr.doc.payment.stripeChargeId,
         metadata |-> [transferFailed |-> TRUE,
                       attemptedTransferCurrency |-> pr.tCurrency,
                       attemptedTransferAmount |-> pr.tAmount]])

\* Payment.findOneAndUpdate of the catch block, and TRANSFER_FAILED
CT_FailSaveLedger(p) ==
    /\ At(p, "ct_fail_ledger")
    /\ ledger' = findOneAndUpdate(ledger, TransferFailedFields(proc[p]), TRUE)
    /\ Finish(p, Response("captureAndTransferPayment", "TRANSFER_FAILED"))
    /\ UNCHANGED <<booking, payee, stripe, events, processedEvents, now>>

\* booking.save() after the transfer
CT_OkSaveBooking(p) ==
    /\ At(p, "ct_ok_save")
    /\ booking' = save(booking, proc[p])
    /\ Goto(p, Saved(proc[p], "ct_ok_ledger"))
    /\ UNCHANGED <<ledger, payee, stripe, events, processedEvents, now>>

\* Payment.findOneAndUpdate after the transfer, and success
CT_OkSaveLedger(p) ==
    /\ At(p, "ct_ok_ledger")
    /\ ledger' = findOneAndUpdate(ledger,
           buildPaymentUpsertBase(proc[p].doc,
               [status |-> "completed",
                stripePaymentIntentId |-> proc[p].doc.payment.stripePaymentIntentId,
                stripeChargeId |-> proc[p].doc.payment.stripeChargeId,
                stripeTransferId |-> proc[p].doc.payment.stripeTransferId,
                capturedAt |-> proc[p].doc.payment.capturedAt,
                transferredAt |-> proc[p].doc.payment.transferredAt]), TRUE)
    /\ Finish(p, Response("captureAndTransferPayment", "success"))
    /\ UNCHANGED <<booking, payee, stripe, events, processedEvents, now>>

\* the handler, for the settlements the processor may report
captureAndTransferPaymentOf(p, settlements) ==
    \/ \E found \in Lookups : CT_Read(p, found)
    \/ \E outcome \in Outcomes : CT_Capture(p, outcome)
    \/ CT_SaveCapture(p)
    \/ \E settled \in settlements : CT_Inspect(p, settled)
    \/ \E outcome \in Outcomes : CT_Transfer(p, outcome)
    \/ CT_FailSaveBooking(p)
    \/ CT_FailSaveLedger(p)
    \/ CT_OkSaveBooking(p)
    \/ CT_OkSaveLedger(p)

captureAndTransferPayment(p) == captureAndTransferPaymentOf(p, Settlements)

\* ------------------------------------------------------ refundPayment
RefundEntry(amount, refundId, source, notes) ==
    [amount |-> amount, refundId |-> refundId, source |-> source, notes |-> notes]

\* user?.role === 'admin' || booking.customer.toString() === userId, where
\* booking.customer.toString() is the hex string of the customer's id and
\* userId is req.user._id, the ObjectId of the authenticated user: a string
\* is never strictly equal to an ObjectId
isAuthorized(user) ==
    \/ user = "admin"
    \/ [type |-> "string", hex |-> "customer"] = [type |-> "ObjectId", hex |-> user]

\* refundAmount = amount || booking.payment.totalWithVat
refundAmount(pr) == IF pr.amount # 0 THEN pr.amount ELSE pr.doc.payment.totalWithVat

\* the refund is validated against the ledger
ChecksRefundTotal(pr) == pr.amount # 0 /\ pr.doc.payment.status = "completed"

\* a validation that compares the requested amount alone
ExceedsTotal_IgnoresHistory(pr, l) ==
    l.exists /\ pr.amount > pr.doc.payment.totalWithVat

\* previousRefundTotal + amount > booking.payment.totalWithVat
ExceedsTotal(pr, l) ==
    l.exists /\ previousRefundTotal(l) + pr.amount > pr.doc.payment.totalWithVat

\* a dispatch that knows the pre-capture cancel only
RF_Dispatch_CancelOnly(p, pr) ==
    IF pr.doc.payment.status = "authorized" THEN Goto(p, [pr EXCEPT !.pc = "rf_cancel"])
    ELSE Finish(p, Response("refundPayment", "INVALID_STATUS"))

\* a dispatch that refunds a partially refunded payment as a captured one
RF_Dispatch_RefundsPartial(p, pr) ==
    IF pr.doc.payment.status = "authorized" THEN Goto(p, [pr EXCEPT !.pc = "rf_cancel"])
    ELSE IF pr.doc.payment.status \in {"completed", "partially_refunded"}
    THEN Goto(p, [pr EXCEPT !.pc = "rf_refund"])
    ELSE Finish(p, Response("refundPayment", "INVALID_STATUS"))

\* the scenario chosen after the validation
RF_Dispatch(p, pr) ==
    IF pr.doc.payment.status = "authorized" THEN Goto(p, [pr EXCEPT !.pc = "rf_cancel"])
    ELSE IF pr.doc.payment.status = "completed"
    THEN Goto(p, [pr EXCEPT !.pc = "rf_refund"])
    ELSE Finish(p, Response("refundPayment", "INVALID_STATUS"))

\* Booking.findById, User.findById and the checks on the request
RF_Read(p, found, user, amount) ==
    /\ At(p, "idle")
    /\ UNCHANGED <<booking, ledger, payee, stripe, events, processedEvents, now>>
    /\ LET pr == [IdleProc EXCEPT !.op = "refundPayment", !.doc = booking,
                                  !.amount = amount]
           R(code) == Response("refundPayment", code) IN
       IF ~found THEN Finish(p, R("BOOKING_NOT_FOUND"))
       ELSE IF ~isAuthorized(user) THEN Finish(p, R("UNAUTHORIZED"))
       ELSE IF pr.doc.payment.stripePaymentIntentId = 0 THEN Finish(p, R("NO_PAYMENT"))
       ELSE IF ChecksRefundTotal(pr) THEN Goto(p, [pr EXCEPT !.pc = "rf_check"])
       ELSE RF_Dispatch(p, pr)

\* Payment.findOne and the comparison with the refundable amount
RF_Check(p) ==
    /\ At(p, "rf_check")
    /\ UNCHANGED <<booking, ledger, payee, stripe, events, processedEvents, now>>
    /\ IF ExceedsTotal(proc[p], ledger)
       THEN Finish(p, Response("refundPayment", "REFUND_EXCEEDS_TOTAL"))
       ELSE RF_Dispatch(p, proc[p])

\* a cancel whose failure is not noticed
RF_Cancel_IgnoresFailure(p, outcome) ==
    /\ At(p, "rf_cancel")
    /\ UNCHANGED <<booking, ledger, payee, processedEvents, now>>
    /\ Apply(PaymentIntentsCancel(stripe, proc[p].doc.payment.stripePaymentIntentId),
             outcome)
    /\ Goto(p, [SetStatus(SetPayment(proc[p],
                      [status |-> "refunded", refundSource |-> "platform"]),
                      "cancelled")
                    EXCEPT !.pc = "rf_a_save"])

\* Scenario A: stripe.paymentIntents.cancel
RF_Cancel(p, outcome) ==
    /\ At(p, "rf_cancel")
    /\ UNCHANGED <<booking, ledger, payee, processedEvents, now>>
    /\ LET a == PaymentIntentsCancel(stripe, proc[p].doc.payment.stripePaymentIntentId) IN
       /\ Apply(a, outcome)
       /\ IF Answered(a, outcome)
          THEN Goto(p, [SetStatus(SetPayment(proc[p],
                            [status |-> "refunded", refundSource |-> "platform"]),
                            "cancelled")
                          EXCEPT !.pc = "rf_a_save"])
          ELSE Finish(p, Response("refundPayment", "STRIPE_ERROR"))

RF_A_SaveBooking(p) ==
    /\ At(p, "rf_a_save")
    /\ booking' = save(booking, proc[p])
    /\ Goto(p, Saved(proc[p], "rf_a_ledger"))
    /\ UNCHANGED <<ledger, payee, stripe, events, processedEvents, now>>

\* $set and $push of one findOneAndUpdate
SetAndPush(l, fields, entry) ==
    LET u == findOneAndUpdate(l, fields, TRUE) IN
    [u EXCEPT !.refunds = Append(@, entry)]

\* a cancellation booked as a refund paid by the professional
RF_A_SaveLedger_ProviderFunded(p) ==
    /\ At(p, "rf_a_ledger")
    /\ ledger' = SetAndPush(ledger,
           buildPaymentUpsertBase(proc[p].doc, [status |-> "refunded"]),
           RefundEntry(refundAmount(proc[p]), <<"none", 0>>, "professional", "cancelled"))
    /\ Finish(p, Response("refundPayment", "cancelled"))
    /\ UNCHANGED <<booking, payee, stripe, events, processedEvents, now>>

RF_A_SaveLedger(p) ==
    /\ At(p, "rf_a_ledger")
    /\ ledger' = SetAndPush(ledger,
           buildPaymentUpsertBase(proc[p].doc, [status |-> "refunded"]),
           RefundEntry(refundAmount(proc[p]), <<"none", 0>>, "platform", "cancelled"))
    /\ Finish(p, Response("refundPayment", "cancelled"))
    /\ UNCHANGED <<booking, payee, stripe, events, processedEvents, now>>

\* every refund booked as a full one
RefundedStatus_AlwaysFull(pr) == "refunded"

\* amount && amount < totalWithVat ? 'partially_refunded' : 'refunded'
RefundedStatus(pr) ==
    IF pr.amount # 0 /\ pr.amount < pr.doc.payment.totalWithVat
    THEN "partially_refunded" ELSE "refunded"

\* the assignments before booking.save() of scenario B
Refunded(pr, source, notes) ==
    [SetStatus(SetPayment(pr, [refundSource |-> source, refundNotes |-> notes,
                               status |-> RefundedStatus(pr)]), "refunded")
        EXCEPT !.pc = "rf_b_save"]

\* amount ? convertToStripeAmount(amount) : undefined
RequestedMinor(pr) == IF pr.amount # 0 THEN convertToStripeAmount(pr.amount) ELSE 0

\* idempotencyKey of stripe.refunds.create: Date.now() is part of it
RefundKey(ts) == generateIdempotencyKey("refund", ts)

\* Scenario B: stripe.refunds.create, at time ts
RF_Refund(p, outcome, ts) ==
    /\ At(p, "rf_refund")
    /\ ts >= now /\ ts >= 1
    /\ now' = ts
    /\ UNCHANGED <<booking, ledger, payee, processedEvents>>
    /\ LET a == RefundsCreate(stripe, proc[p].doc.payment.stripePaymentIntentId,
                              RequestedMinor(proc[p]), RefundKey(ts))
           pr == [proc[p] EXCEPT !.rf = a.id] IN
       /\ Apply(a, outcome)
       /\ IF ~Answered(a, outcome)
          THEN Finish(p, Response("refundPayment", "STRIPE_ERROR"))
          ELSE IF pr.doc.payment.stripeTransferId # 0
          THEN Goto(p, [pr EXCEPT !.pc = "rf_reversal"])
          ELSE Goto(p, Refunded(pr, "platform", pr.doc.payment.refundNotes))

\* stripe.transfers.createReversal; a failure is caught
RF_Reversal(p, outcome) ==
    /\ At(p, "rf_reversal")
    /\ UNCHANGED <<booking, ledger, payee, processedEvents, now>>
    /\ LET a == TransfersCreateReversal(stripe, proc[p].doc.payment.stripeTransferId,
                                        RequestedMinor(proc[p])) IN
       /\ Apply(a, outcome)
       /\ IF Answered(a, outcome)
          THEN Goto(p, Refunded(proc[p], "professional", proc[p].doc.payment.refundNotes))
          ELSE Goto(p, Refunded(proc[p], "platform", "reversal_failed"))

RF_B_SaveBooking(p) ==
    /\ At(p, "rf_b_save")
    /\ booking' = save(booking, proc[p])
    /\ Goto(p, Saved(proc[p], "rf_b_ledger"))
    /\ UNCHANGED <<ledger, payee, stripe, events, processedEvents, now>>

RF_B_SaveLedger(p) ==
    /\ At(p, "rf_b_ledger")
    /\ ledger' = SetAndPush(ledger,
           buildPaymentUpsertBase(proc[p].doc, [status |-> proc[p].doc.payment.status]),
           RefundEntry(refundAmount(proc[p]), <<"re", proc[p].rf>>,
                       proc[p].doc.payment.refundSource,
                       proc[p].doc.payment.refundNotes))
    /\ Finish(p, Response("refundPayment", "success"))
    /\ UNCHANGED <<booking, payee, stripe, events, processedEvents, now>>

\* req.user of the refund requests
RefundRequesters == {"admin"}

\* the requests that name a booking in lookups and come from a user in users
refundPaymentBy(p, lookups, users) ==
    \/ \E found \in lookups, user \in users, amount \in RefundAmounts :
          RF_Read(p, found, user, amount)
    \/ RF_Check(p)
    \/ \E outcome \in Outcomes : RF_Cancel(p, outcome)
    \/ RF_A_SaveBooking(p)
    \/ RF_A_SaveLedger(p)
    \/ \E outcome \in Outcomes, ts \in 1..MaxClock : RF_Refund(p, outcome, ts)
    \/ \E outcome \in Outcomes : RF_Reversal(p, outcome)
    \/ RF_B_SaveBooking(p)
    \/ RF_B_SaveLedger(p)

refundPayment(p) == refundPaymentBy(p, Lookups, RefundRequesters)

\* ---------------------------------------------------------- webhooks
\* Events that do not come from the booking's payment objects can be
\* delivered at any time: account.updated (obj: charges_enabled and the
\* other capabilities, 1 or 0), account.application.deauthorized,
\* payout.paid, and a kind the dispatch does not know
AmbientEvents ==
    {Event("account.updated", 1, 0), Event("account.updated", 0, 0),
     Event("account.application.deauthorized", 0, 0),
     Event("payout.paid", 0, 0), Event("customer.created", 0, 0)}


InSet(set, id) == \E i \in 1..Len(set) : set[i] = id

\* a handler that forgets to record the event it processed
markEventProcessed_Forgets(set, eventId) == set

\* a set that is never trimmed
markEventProcessed_KeepsAll(set, eventId) ==
    IF InSet(set, eventId) THEN set ELSE Append(set, eventId)

\* processedEvents.add(eventId); over capacity the first entry is deleted
markEventProcessed(set, eventId) ==
    LET added == IF InSet(set, eventId) THEN set ELSE Append(set, eventId) IN
    IF Len(added) > MAX_PROCESSED_EVENTS THEN Tail(added) ELSE added

\* markEventProcessed(event.id); res.json({received: true})
Acknowledge(p) ==
    /\ processedEvents' = markEventProcessed(processedEvents, proc[p].ev)
    /\ Finish(p, Response("handleWebhook", "received"))

BookingKinds ==
    {"payment_intent.succeeded", "payment_intent.payment_failed",
     "payment_intent.canceled", "charge.captured", "charge.refunded",
     "charge.dispute.created", "charge.dispute.closed", "transfer.created",
     "transfer.reversed"}
AccountKinds == {"account.updated", "account.application.deauthorized"}

\* an endpoint that does not verify the signature
WH_Receive_Unverified(p, sig, e) ==
    /\ At(p, "idle")
    /\ UNCHANGED <<booking, ledger, payee, stripe, events, now>>
    /\ LET pr == [IdleProc EXCEPT !.op = "handleWebhook", !.ev = e] IN
       IF InSet(processedEvents, e)
       THEN Finish(p, Response("handleWebhook", "duplicate"))
            /\ UNCHANGED processedEvents
       ELSE IF Len(processedEvents) >= MaxDeliveries
       THEN FALSE
       ELSE IF e.kind \in BookingKinds
       THEN Goto(p, [pr EXCEPT !.pc = "wh_find"]) /\ UNCHANGED processedEvents
       ELSE IF e.kind \in AccountKinds
       THEN Goto(p, [pr EXCEPT !.pc = "wh_find_user"]) /\ UNCHANGED processedEvents
       ELSE /\ processedEvents' = markEventProcessed(processedEvents, e)
            /\ Finish(p, Response("handleWebhook", "received"))

\* handleWebhook up to the first await of the handler it dispatches to
WH_Receive(p, sig, e) ==
    /\ At(p, "idle")
    /\ UNCHANGED <<booking, ledger, payee, stripe, events, now>>
    /\ LET pr == [IdleProc EXCEPT !.op = "handleWebhook", !.ev = e] IN
       IF sig = "absent"
       THEN Finish(p, Response("handleWebhook", "400 No signature"))
            /\ UNCHANGED processedEvents
       ELSE IF sig = "invalid"
       THEN Finish(p, Response("handleWebhook", "400 Webhook Error"))
            /\ UNCHANGED processedEvents
       ELSE IF InSet(processedEvents, e)
       THEN Finish(p, Response("handleWebhook", "duplicate"))
            /\ UNCHANGED processedEvents
       ELSE IF Len(processedEvents) >= MaxDeliveries
       THEN FALSE
       ELSE IF e.kind \in BookingKinds
       THEN Goto(p, [pr EXCEPT !.pc = "wh_find"]) /\ UNCHANGED processedEvents
       ELSE IF e.kind \in AccountKinds
       THEN Goto(p, [pr EXCEPT !.pc = "wh_find_user"]) /\ UNCHANGED processedEvents
       ELSE /\ processedEvents' = markEventProcessed(processedEvents, e)
            /\ Finish(p, Response("handleWebhook", "received"))

\* the booking a handler finds: by metadata.bookingId, by
\* payment.stripePaymentIntentId or by payment.stripeChargeId
FoundIn(b, e) ==
    CASE e.kind \in {"charge.captured", "charge.refunded"} ->
            b.payment.stripePaymentIntentId = e.obj
      [] e.kind \in {"charge.dispute.created", "charge.dispute.closed"} ->
            b.payment.stripeChargeId = e.obj
      [] OTHER -> TRUE

Found(e) == FoundIn(booking, e)

\* the assignments a handler makes to the booking it found; the slot is
\* returned unchanged when the handler's guard fails
Handle(pr) ==
    LET e == pr.ev
        st == pr.doc.payment.status IN
    CASE e.kind = "payment_intent.succeeded" ->
            IF st = "pending"
            THEN SetStatus(SetPayment(pr, [status |-> "authorized",
                                           stripeChargeId |-> ChargeOf(e.obj)]),
                           "booked")
            ELSE pr
      [] e.kind = "payment_intent.payment_failed" ->
            SetStatus(SetPayment(pr, [status |-> "failed"]), "payment_pending")
      [] e.kind = "payment_intent.canceled" ->
            IF st = "authorized"
            THEN SetStatus(SetPayment(pr, [status |-> "refunded"]), "cancelled")
            ELSE pr
      [] e.kind = "charge.captured" ->
            IF st = "authorized" THEN SetPayment(pr, [capturedAt |-> TRUE]) ELSE pr
      [] e.kind = "charge.refunded" ->
            SetStatus(SetPayment(pr,
                [status |-> IF toMajor(e.info) >= toMajor(convertToStripeAmount(Total))
                            THEN "refunded" ELSE "partially_refunded"]), "refunded")
      [] e.kind = "charge.dispute.created" ->
            SetPayment(pr, [status |-> "refunded", refundSource |-> "platform",
                            refundNotes |-> "dispute_opened"])
      [] e.kind = "charge.dispute.closed" ->
            IF e.info = 1
            THEN SetPayment(pr, [status |-> "completed", refundNotes |-> "dispute_won"])
            ELSE SetPayment(pr, [refundNotes |-> "dispute_lost"])
      [] e.kind = "transfer.created" ->
            SetPayment(pr, [stripeTransferId |-> e.obj, transferredAt |-> TRUE])
      [] OTHER -> pr

\* the handler reaches booking.save()
Saves(pr) ==
    LET e == pr.ev
        st == pr.doc.payment.status IN
    CASE e.kind = "payment_intent.succeeded" -> st = "pending"
      [] e.kind = "payment_intent.canceled" -> st = "authorized"
      [] e.kind = "charge.captured" -> st = "authorized"
      [] e.kind = "transfer.reversed" -> FALSE
      [] OTHER -> TRUE

\* a handler of transfer.reversed that takes the transfer off the booking
WH_Find_AppliesReversal(p) ==
    /\ At(p, "wh_find")
    /\ UNCHANGED <<ledger, payee, stripe, events, now>>
    /\ LET pr == [proc[p] EXCEPT !.doc = booking] IN
       IF pr.ev.kind = "transfer.reversed"
       THEN /\ booking' = [booking EXCEPT !.payment.stripeTransferId = 0]
            /\ Acknowledge(p)
       ELSE /\ booking' = booking
            /\ IF Found(pr.ev) /\ HasPayment(pr.doc) /\ Saves(pr)
               THEN Goto(p, [Handle(pr) EXCEPT !.pc = "wh_save"])
                    /\ UNCHANGED processedEvents
               ELSE Acknowledge(p)

\* Booking.findById / findOne of the handler and its code up to booking.save()
WH_Find(p) ==
    /\ At(p, "wh_find")
    /\ UNCHANGED <<booking, ledger, payee, stripe, events, now>>
    /\ LET pr == [proc[p] EXCEPT !.doc = booking] IN
       IF Found(pr.ev) /\ HasPayment(pr.doc) /\ Saves(pr)
       THEN Goto(p, [Handle(pr) EXCEPT !.pc = "wh_save"]) /\ UNCHANGED processedEvents
       ELSE Acknowledge(p)

\* the handler updates the ledger after saving the booking
UpdatesLedger(e) == ~ (e.kind = "charge.dispute.closed" /\ e.info # 1)

\* booking.save() of the handler
WH_SaveBooking(p) ==
    /\ At(p, "wh_save")
    /\ booking' = save(booking, proc[p])
    /\ UNCHANGED <<ledger, payee, stripe, events, now>>
    /\ IF UpdatesLedger(proc[p].ev)
       THEN Goto(p, Saved(proc[p], "wh_ledger")) /\ UNCHANGED processedEvents
       ELSE Acknowledge(p)

\* the update each handler passes to Payment.findOneAndUpdate
LedgerFields(pr) ==
    LET e == pr.ev
        pay == pr.doc.payment IN
    CASE e.kind = "payment_intent.succeeded" ->
            [status |-> "authorized", stripeChargeId |-> pay.stripeChargeId]
      [] e.kind = "payment_intent.payment_failed" -> [status |-> "failed"]
      [] e.kind = "payment_intent.canceled" -> [status |-> "refunded"]
      [] e.kind = "charge.captured" -> [capturedAt |-> pay.capturedAt]
      [] e.kind = "charge.refunded" -> [status |-> pay.status]
      [] e.kind = "charge.dispute.created" -> [status |-> "refunded"]
      [] e.kind = "charge.dispute.closed" -> [status |-> "completed"]
      [] e.kind = "transfer.created" ->
            [stripeTransferId |-> e.obj, transferredAt |-> TRUE]

\* dispute.amount: the amount of the charge, in minor units
DisputeAmount == convertToStripeAmount(Total)

\* an update that records no refund entry for a dispute
LedgerUpdated_NoEntry(l, pr) == findOneAndUpdate(l, LedgerFields(pr), FALSE)

\* an update that records a refund entry for a charge.refunded event too
LedgerUpdated_MirrorsRefund(l, pr) ==
    LET u == findOneAndUpdate(l, LedgerFields(pr), FALSE) IN
    IF pr.ev.kind \in {"charge.dispute.created", "charge.refunded"} /\ l.exists
    THEN [u EXCEPT !.refunds = Append(@,
             RefundEntry(toMajor(DisputeAmount), <<"dp", pr.ev.obj>>,
                         "platform", "dispute_opened"))]
    ELSE u

\* the ledger record after Payment.findOneAndUpdate of the handler (no
\* upsert); handleDisputeCreated also pushes a refund entry
LedgerUpdated(l, pr) ==
    LET u == findOneAndUpdate(l, LedgerFields(pr), FALSE) IN
    IF pr.ev.kind = "charge.dispute.created" /\ l.exists
    THEN [u EXCEPT !.refunds = Append(@,
             RefundEntry(toMajor(DisputeAmount), <<"dp", pr.ev.obj>>,
                         "platform", "dispute_opened"))]
    ELSE u

\* Payment.findOneAndUpdate of the handler, then the event is marked and
\* acknowledged
WH_SaveLedger(p) ==
    /\ At(p, "wh_ledger")
    /\ ledger' = LedgerUpdated(ledger, proc[p])
    /\ Acknowledge(p)
    /\ UNCHANGED <<booking, payee, stripe, events, now>>

\* User.findById / findOne of the account handlers and the flags they set
WH_FindUser(p) ==
    /\ At(p, "wh_find_user")
    /\ Goto(p, [proc[p] EXCEPT !.pc = "wh_save_user"])
    /\ UNCHANGED <<booking, ledger, payee, stripe, events, processedEvents, now>>

\* a disconnection that marks the account restricted and leaves its flags
WH_SaveUser_KeepsFlags(p) ==
    /\ At(p, "wh_save_user")
    /\ payee' = IF proc[p].ev.kind = "account.updated"
                THEN [payee EXCEPT !.chargesEnabled = (proc[p].ev.obj = 1),
                                   !.payoutsEnabled = (proc[p].ev.obj = 1),
                                   !.accountStatus = IF proc[p].ev.obj = 1
                                                     THEN "active" ELSE "pending"]
                ELSE [payee EXCEPT !.accountStatus = "restricted"]
    /\ Acknowledge(p)
    /\ UNCHANGED <<booking, ledger, stripe, events, now>>

\* user.save() of handleAccountUpdated and handleAccountDeauthorized
WH_SaveUser(p) ==
    /\ At(p, "wh_save_user")
    /\ payee' = IF proc[p].ev.kind = "account.updated"
                THEN [payee EXCEPT !.chargesEnabled = (proc[p].ev.obj = 1),
                                   !.payoutsEnabled = (proc[p].ev.obj = 1),
                                   !.accountStatus = IF proc[p].ev.obj = 1
                                                     THEN "active" ELSE "pending"]
                ELSE [payee EXCEPT !.chargesEnabled = FALSE,
                                   !.payoutsEnabled = FALSE,
                                   !.accountStatus = "restricted"]
    /\ Acknowledge(p)
    /\ UNCHANGED <<booking, ledger, stripe, events, now>>

Signatures == {"absent", "invalid", "valid"}

\* an awaited database call of the handler rejects: the catch block of
\* handleWebhook answers 500 and the event is not marked
WH_Throws(p) ==
    /\ \E pc \in {"wh_find", "wh_save", "wh_ledger", "wh_find_user", "wh_save_user"} :
          At(p, pc)
    /\ Finish(p, Response("handleWebhook", "500"))
    /\ UNCHANGED <<booking, ledger, payee, stripe, events, processedEvents, now>>

\* requests to the endpoint without a signature that verifies
handleUnsignedWebhook(p) ==
    \E sig \in Signatures \ {"valid"}, e \in events \cup AmbientEvents :
        WH_Receive(p, sig, e)

\* deliveries of the events of the booking's payment objects
handleWebhook(p) ==
    \/ \E e \in events : WH_Receive(p, "valid", e)
    \/ WH_Find(p)
    \/ WH_SaveBooking(p)
    \/ WH_SaveLedger(p)

\* deliveries of the other events
handleAmbientWebhook(p) ==
    \/ \E e \in AmbientEvents : WH_Receive(p, "valid", e)
    \/ WH_FindUser(p)
    \/ WH_SaveUser(p)

\* ------------------------------------------------------- environment
\* The customer completes the card payment of an authorization
CustomerAuthorizes(i) ==
    /\ ~Responding
    /\ i \in 1..Len(stripe.intents)
    /\ stripe.intents[i] = "requires_payment_method"
    /\ stripe' = [stripe EXCEPT !.intents[i] = "requires_capture"]
    /\ events' = events \cup {Event("payment_intent.succeeded", i, 0)}
    /\ UNCHANGED <<booking, ledger, payee, processedEvents, now, proc, result>>

\* The card is declined; the authorization can be tried again
CustomerPaymentFails(i) ==
    /\ ~Responding
    /\ i \in 1..Len(stripe.intents)
    /\ stripe.intents[i] = "requires_payment_method"
    /\ events' = events \cup {Event("payment_intent.payment_failed", i, 0)}
    /\ UNCHANGED <<booking, ledger, payee, stripe, processedEvents, now, proc, result>>

\* The cardholder disputes the captured charge; the bank decides
DisputeOpened(i) ==
    /\ ~Responding
    /\ i \in 1..Len(stripe.intents)
    /\ stripe.intents[i] = "succeeded"
    /\ stripe.dispute = "none"
    /\ stripe' = [stripe EXCEPT !.dispute = "open"]
    /\ events' = events \cup {Event("charge.dispute.created", ChargeOf(i), 0)}
    /\ UNCHANGED <<booking, ledger, payee, processedEvents, now, proc, result>>

DisputeClosed(i, won) ==
    /\ ~Responding
    /\ i \in 1..Len(stripe.intents)
    /\ stripe.intents[i] = "succeeded"
    /\ stripe.dispute = "open"
    /\ stripe' = [stripe EXCEPT !.dispute = IF won THEN "won" ELSE "lost"]
    /\ events' = events \cup {Event("charge.dispute.closed", ChargeOf(i),
                                     IF won THEN 1 ELSE 0)}
    /\ UNCHANGED <<booking, ledger, payee, processedEvents, now, proc, result>>

\* the customer at the payment form
Payer ==
    \/ \E i \in 1..MaxIntents : CustomerAuthorizes(i)
    \/ \E i \in 1..MaxIntents : CustomerPaymentFails(i)

Environment ==
    \/ Payer
    \/ \E i \in 1..MaxIntents : DisputeOpened(i)
    \/ \E i \in 1..MaxIntents, won \in BOOLEAN : DisputeClosed(i, won)

\* ------------------------------------------------------ specification
Request(p) ==
    \/ createPaymentIntent(p)
    \/ confirmPayment(p)
    \/ captureAndTransferPayment(p)
    \/ refundPayment(p)
    \/ handleWebhook(p)

\* one request at a time
Next ==
    \/ Request(1)
    \/ Environment
    \/ Return(1)
Spec == Init /\ [][Next]_vars

\* requests of the authorization and capture path overlap: every slot runs
\* its handler step by step, interleaved with the steps of the other slots
NextConc ==
    \/ \E p \in Procs : createPaymentIntent(p)
    \/ \E p \in Procs : confirmPayment(p)
    \/ \E p \in Procs : captureAndTransferPayment(p)
    \/ Payer
    \/ \E p \in Procs : Return(p)
SpecConc == Init /\ [][NextConc]_vars

\* The booking, the ledger record and the processor as a successful
\* createPaymentIntent leaves them: a pending payment on authorization 1
PendingBooking(d) ==
    [status |-> "payment_pending", direct |-> d, payment |-> NewPayment(1)]

PendingLedger(d) ==
    findOneAndUpdate(NoLedger,
        buildPaymentUpsertBase(PendingBooking(d),
            [status |-> "pending", totalWithVat |-> Total,
             platformCommission |-> platformCommission(Total),
             professionalPayout |-> professionalPayout(Total),
             stripePaymentIntentId |-> 1, stripeClientSecret |-> ClientSecretOf(1),
             metadata |-> NoMetadata]), TRUE)

PendingStripe ==
    Remember([NoStripe EXCEPT !.intents = <<"requires_payment_method">>],
             CreateIntentKey, 1)

InitPending ==
    /\ booking \in {PendingBooking(d) : d \in BOOLEAN}
    /\ ledger = PendingLedger(booking.direct)
    /\ payee = [accountId |-> TRUE, chargesEnabled |-> TRUE, payoutsEnabled |-> TRUE,
                accountStatus |-> "active"]
    /\ stripe = PendingStripe
    /\ events = {}
    /\ processedEvents = <<>>
    /\ now = 0
    /\ proc = [p \in Procs |-> IdleProc]
    /\ result = [p \in Procs |-> NoResult]

\* the customer is at the payment form and the processor's events are
\* delivered to handlers that overlap: every slot runs its handler step by
\* step, interleaved with the steps of the other slots
NextRace ==
    \/ \E p \in Procs : handleWebhook(p)
    \/ Payer
    \/ \E p \in Procs : Return(p)
SpecRace == InitPending /\ [][NextRace]_vars

\* the webhook endpoint alone, one delivery at a time: signed and unsigned
\* requests, payment and account events, handlers whose database calls fail
NextDelivery ==
    \/ handleWebhook(1)
    \/ handleAmbientWebhook(1)
    \/ handleUnsignedWebhook(1)
    \/ WH_Throws(1)
    \/ Payer
    \/ Return(1)
SpecDelivery == InitPending /\ [][NextDelivery]_vars

\* ----------------------------------------------- the split of the total
\* The amounts of createPaymentIntent are doubles of major units.  In this
\* section an amount is a whole number of grains, MinorUnit grains to the
\* minor currency unit, and a floating-point operation returns a value
\* within one grain of the exact result.
MinorUnit == 10
Rounded(x) == {x - 1, x, x + 1}

\* vatCalculation.total: from the processor's minimum to its maximum, whole
\* minor units and fractions of them
TotalsWithVat ==
    {50 * MinorUnit, 50 * MinorUnit + 1, 99 * MinorUnit + 5, 100 * MinorUnit,
     333 * MinorUnit + 3, 12000 * MinorUnit, 99999999 * MinorUnit}

\* STRIPE_CONFIG.commissionPercent, in tenths of a percent
CommissionPercents == {0, 1, 25, 150, 333, 500, 999, 1000}

\* (totalAmount * STRIPE_CONFIG.commissionPercent) / 100
commissionOf(totalAmount, percent) ==
    Rounded((totalAmount \div 1000) * percent
            + RoundDiv((totalAmount % 1000) * percent, 1000))

\* a payout that keeps the whole total
payoutOf_WholeTotal(totalAmount, commission) == Rounded(totalAmount)

\* totalAmount - platformCommission
payoutOf(totalAmount, commission) == Rounded(totalAmount - commission)

\* createPaymentIntent from the amounts to the two writes, for a quote whose
\* total with VAT is totalAmount and a commission of percent
CPI_Amounts(totalAmount, percent) ==
    /\ ~HasPayment(booking)
    /\ \E commission \in commissionOf(totalAmount, percent) :
       \E payout \in payoutOf(totalAmount, commission) :
          LET pay == PaymentOf(1, totalAmount, commission, payout) IN
          /\ booking' = [booking EXCEPT !.status = "payment_pending", !.payment = pay]
          /\ ledger' = findOneAndUpdate(ledger,
                 [status |-> "pending", totalWithVat |-> totalAmount,
                  platformCommission |-> commission, professionalPayout |-> payout,
                  stripePaymentIntentId |-> 1,
                  stripeClientSecret |-> ClientSecretOf(1)], TRUE)
    /\ stripe' = PendingStripe
    /\ UNCHANGED <<payee, events, processedEvents, now, proc, result>>

NextAmounts ==
    \E totalAmount \in TotalsWithVat, percent \in CommissionPercents :
        CPI_Amounts(totalAmount, percent)
SpecAmounts == Init /\ [][NextAmounts]_vars

\* ------------------------------------------------- the transfer amount
\* The booking after confirmPayment, for a total and a payout in major
\* units: payment authorized on authorization 1, ledger record alike
InitAuthorized ==
    /\ \E d \in BOOLEAN, c \in {<<120, 102>>, <<3, 1>>, <<5, 0>>, <<5, 5>>, <<7, 3>>} :
          LET pay == [PaymentOf(1, c[1], c[1] - c[2], c[2])
                         EXCEPT !.status = "authorized",
                                !.stripeChargeId = ChargeOf(1)] IN
          /\ booking = [status |-> "booked", direct |-> d, payment |-> pay]
          /\ ledger = findOneAndUpdate(NoLedger,
                 [status |-> "authorized", totalWithVat |-> c[1],
                  platformCommission |-> c[1] - c[2], professionalPayout |-> c[2],
                  stripePaymentIntentId |-> 1, stripeClientSecret |-> ClientSecretOf(1),
                  stripeChargeId |-> ChargeOf(1)], TRUE)
    /\ payee = [accountId |-> TRUE, chargesEnabled |-> TRUE, payoutsEnabled |-> TRUE,
                accountStatus |-> "active"]
    /\ stripe = [PendingStripe EXCEPT !.intents = <<"requires_capture">>]
    /\ events = {Event("payment_intent.succeeded", 1, 0)}
    /\ processedEvents = <<>>
    /\ now = 0
    /\ proc = [p \in Procs |-> IdleProc]
    /\ result = [p \in Procs |-> NoResult]

\* balanceTransaction.amount, in minor units of the settlement currency
SettledAmounts == {0, 1, 2, 50, 333, 13000, 99999}

\* captureAndTransferPayment, called until it has succeeded, for charges
\* that settle in the booking currency or in another one, at any amount
NextPayout ==
    \/ captureAndTransferPaymentOf(1,
          {Settled(FALSE, "none", 0)} \cup
          {Settled(TRUE, cur, amt) : cur \in {"eur", "usd"},
                                     amt \in SettledAmounts})
    \/ Return(1)
SpecPayout == InitAuthorized /\ [][NextPayout]_vars

\* ------------------------------------------------------ who may ask
\* The lifecycle with requests from every user, for a booking that exists
\* or does not
NextAccess ==
    \/ createPaymentIntentBy(1, BOOLEAN, Users)
    \/ confirmPayment(1)
    \/ captureAndTransferPayment(1)
    \/ refundPaymentBy(1, BOOLEAN, Users)
    \/ handleWebhook(1)
    \/ Payer
    \/ Return(1)
SpecAccess == Init /\ [][NextAccess]_vars

\* ------------------------------------------- deliveries after the capture
\* The authorized payment is captured and paid out, the charge may be
\* disputed, and the processor's events are delivered to handlers that
\* overlap
NextOverlap ==
    \/ captureAndTransferPayment(1)
    \/ \E i \in 1..MaxIntents : DisputeOpened(i)
    \/ \E p \in Procs : handleWebhook(p)
    \/ \E p \in Procs : Return(p)
SpecOverlap == InitAuthorized /\ [][NextOverlap]_vars

\* ------------------------------------------ every kind of event delivered
\* The authorized payment is captured, paid out and refunded, and the
\* events of the payment, of the payee's account and those that concern no
\* booking are delivered, one request at a time
NextEvents ==
    \/ captureAndTransferPayment(1)
    \/ refundPayment(1)
    \/ handleWebhook(1)
    \/ handleAmbientWebhook(1)
    \/ Return(1)
SpecEvents == InitAuthorized /\ [][NextEvents]_vars

\* --------------------------------------------- the payee's account changes
\* The customer asks for an authorization while the events of the payee's
\* account, and the events that concern no booking, are delivered
NextOnboarding ==
    \/ createPaymentIntent(1)
    \/ handleAmbientWebhook(1)
    \/ Return(1)
SpecOnboarding == Init /\ [][NextOnboarding]_vars

\* ------------------------------------------------ the dedup set when full
\* The endpoint after a long run: the dedup set holds the ids of the events
\* 1..n handled so far, n at or just under the capacity; the processor
\* delivers events of a kind the dispatch ignores, two of the oldest again
\* and three new ones
InitDedup ==
    /\ booking \in {[status |-> "quote_accepted", direct |-> d, payment |-> NoPayment]
                     : d \in BOOLEAN}
    /\ ledger = NoLedger
    /\ payee = [accountId |-> TRUE, chargesEnabled |-> TRUE, payoutsEnabled |-> TRUE,
                accountStatus |-> "active"]
    /\ stripe = NoStripe
    /\ events = {Event("customer.created", i, 0) :
                    i \in {1, 2} \cup (MAX_PROCESSED_EVENTS + 1)..(MAX_PROCESSED_EVENTS + 3)}
    /\ \E n \in (MAX_PROCESSED_EVENTS - 2)..MAX_PROCESSED_EVENTS :
          processedEvents = [i \in 1..n |-> Event("customer.created", i, 0)]
    /\ now = 0
    /\ proc = [p \in Procs |-> IdleProc]
    /\ result = [p \in Procs |-> NoResult]

NextDedup ==
    \* a delivery answered as a duplicate
    \/ \E e \in events : InSet(processedEvents, e) /\ WH_Receive(1, "valid", e)
    \* a delivery of an event not in the set: no handler for its kind, the
    \* id is marked and the delivery acknowledged
    \/ \E e \in events :
          /\ At(1, "idle")
          /\ ~InSet(processedEvents, e)
          /\ processedEvents' = markEventProcessed(processedEvents, e)
          /\ Finish(1, Response("handleWebhook", "received"))
          /\ UNCHANGED <<booking, ledger, payee, stripe, events, now>>
    \/ Return(1)
SpecDedup == InitDedup /\ [][NextDedup]_vars

\* ------------------------------------------------- the state machine
\* The transitions of the payment status: creation, the forward path, the
\* failure and cancel paths, and the refunds
Transitions ==
    {<<"none", "pending">>, <<"pending", "authorized">>,
     <<"authorized", "completed">>, <<"pending", "failed">>,
     <<"authorized", "failed">>, <<"authorized", "refunded">>,
     <<"completed", "refunded">>, <<"completed", "partially_refunded">>,
     <<"partially_refunded", "refunded">>}

\* createPaymentIntent starts over after a failed or cancelled payment
Restarts == {<<"failed", "pending">>, <<"refunded", "pending">>}

\* C1: under any sequence of operations on the booking, every change of the
\* payment status is a transition of the state machine, or a restart to
\* pending made by createPaymentIntent; no other status change occurs.
C1_StatusFollowsStateMachine ==
    [][LET change == <<booking.payment.status, booking'.payment.status>> IN
       change[1] # change[2] =>
          \/ change \in Transitions
          \/ change \in Restarts /\ \E p \in Procs : proc[p].op = "createPaymentIntent"]_vars

\* ------------------------------------------------------ deduplication
\* slot p takes the delivery of event e
Delivers(p, e) == WH_Receive(p, "valid", e)

\* slot p acknowledges the event it handled with {received: true}
Acknowledges(p) ==
    /\ proc[p].op = "handleWebhook"
    /\ proc'[p].pc = "done"
    /\ result'[p].code = "received"

\* C2: once a delivery of an event id has been acknowledged, the id is
\* remembered, and a second delivery of that id returns duplicate:true at
\* once: no handler runs, and neither the booking nor the ledger record
\* changes.
C2_SecondDeliveryIsDuplicate ==
    [][/\ \A p \in Procs : Acknowledges(p) => InSet(processedEvents', proc[p].ev)
       /\ \A e \in events : InSet(processedEvents, e) => InSet(processedEvents', e)
       /\ \A p \in Procs, e \in events :
             InSet(processedEvents, e) /\ Delivers(p, e) =>
                /\ result'[p] = Response("handleWebhook", "duplicate")
                /\ proc'[p].pc = "done"
                /\ UNCHANGED <<booking, ledger, processedEvents>>]_vars

\* an event that changed the booking has been delivered again and answered
\* as a duplicate
C2_Witness ==
    /\ result[1] = Response("handleWebhook", "duplicate")
    /\ \E i \in 1..Len(processedEvents) :
          processedEvents[i].kind = "payment_intent.succeeded"
    /\ booking.payment.status = "authorized"

\* ------------------------------------------------------------ refunds
\* C3: in every reachable state the amounts of the refund entries of the
\* ledger record add up to at most the payment's totalWithVat.
C3_RefundsWithinTotal ==
    ledger.exists => previousRefundTotal(ledger) <= ledger.totalWithVat

\* slot p takes a refund request of an authorized requester for amount a
RequestsRefund(p, a) ==
    \E user \in RefundRequesters : isAuthorized(user) /\ RF_Read(p, TRUE, user, a)

\* amount a added to the refund entries recorded so far is over the total
OverTotal(a) ==
    /\ a # 0
    /\ booking.payment.stripePaymentIntentId # 0
    /\ previousRefundTotal(ledger) + a > booking.payment.totalWithVat

\* slot p rejects the refund it is validating, and nothing else happens
RejectsRefund(p) ==
    /\ result'[p] = Response("refundPayment", "REFUND_EXCEEDS_TOTAL")
    /\ proc'[p].pc = "done"
    /\ UNCHANGED <<booking, ledger, stripe, events>>

\* C4 as stated: a refund request whose amount added to the recorded refund
\* entries exceeds totalWithVat fails with RefundExceedsTotal whatever the
\* payment status is, with no processor call and no state change.
C4_ExceedingRefundAlwaysFails ==
    [][\A p \in Procs, a \in RefundAmounts :
         /\ OverTotal(a) /\ RequestsRefund(p, a) =>
               proc'[p].pc = "rf_check" \/ RejectsRefund(p)
         /\ proc[p].pc = "rf_check" /\ proc'[p].pc # "rf_check"
               /\ OverTotal(proc[p].amount) => RejectsRefund(p)]_vars

\* C4 amended: a refund request with an explicit amount against a completed
\* payment, whose amount added to the recorded refund entries exceeds
\* totalWithVat, fails with RefundExceedsTotal, with no processor call and
\* no state change.
C4_ExceedingRefundOfCompletedFails ==
    [][\A p \in Procs, a \in RefundAmounts :
         /\ OverTotal(a) /\ booking.payment.status = "completed" /\ ledger.exists
               /\ RequestsRefund(p, a) =>
               /\ proc'[p].pc = "rf_check"
               /\ UNCHANGED <<booking, ledger, stripe, events>>
         /\ proc[p].pc = "rf_check" /\ proc'[p].pc # "rf_check"
               /\ OverTotal(proc[p].amount) /\ ledger.exists => RejectsRefund(p)]_vars

\* a partial refund of a completed payment with earlier refund entries has
\* been rejected
C4_Witness ==
    /\ result[1] = Response("refundPayment", "REFUND_EXCEEDS_TOTAL")
    /\ booking.payment.status = "completed"
    /\ Len(ledger.refunds) > 0
    /\ previousRefundTotal(ledger) <= ledger.totalWithVat

\* --------------------------------------- capture succeeded, transfer failed
\* slot p returns from the catch block of the transfer
ReturnsTransferFailed(p) == proc[p].pc = "ct_fail_ledger" /\ proc'[p].pc = "done"

\* what the return of the catch block leaves behind, the transfer id aside
FailureRecorded(p) ==
    /\ result'[p] = Response("captureAndTransferPayment", "TRANSFER_FAILED")
    /\ booking'.payment.status = "completed"
    /\ booking'.payment.capturedAt
    /\ booking'.payment.refundNotes = "transfer_failed"
    /\ ledger'.exists
    /\ ledger'.status = "completed"
    /\ ledger'.capturedAt
    /\ ledger'.metadata.transferFailed
    /\ ledger'.metadata.attemptedTransferCurrency = proc[p].tCurrency
    /\ ledger'.metadata.attemptedTransferAmount = proc[p].tAmount
    /\ proc[p].tAmount > 0

TransferHasFailed(doc) ==
    /\ doc.payment.status = "completed"
    /\ doc.payment.refundNotes = "transfer_failed"
    /\ doc.payment.stripeTransferId = 0

\* C6: after a capture whose transfer failed, a refund request of an
\* authorized requester is accepted as a post-capture refund: it is not
\* rejected for the status, the processor is asked for the refund and for
\* no reversal, and the refund is recorded as funded by the platform.
C6_RefundAfterFailedTransfer ==
    [][\A p \in Procs :
         /\ \A a \in RefundAmounts :
               TransferHasFailed(booking) /\ ledger.metadata.transferFailed
               /\ RequestsRefund(p, a) =>
                  /\ proc'[p].pc = IF a # 0 THEN "rf_check" ELSE "rf_refund"
                  /\ proc'[p].doc = booking
         /\ proc[p].pc = "rf_check" /\ proc'[p].pc # "rf_check"
               /\ TransferHasFailed(proc[p].doc) /\ ~OverTotal(proc[p].amount) =>
                  proc'[p].pc = "rf_refund"
         /\ proc[p].pc = "rf_refund" /\ proc'[p].pc \notin {"rf_refund", "done"}
               /\ TransferHasFailed(proc[p].doc) =>
                  /\ proc'[p].pc = "rf_b_save"
                  /\ proc'[p].doc.payment.refundSource = "platform"
                  /\ proc'[p].doc.payment.status \in {"refunded", "partially_refunded"}
                  /\ proc'[p].rf \in 1..stripe'.refunds
                  /\ stripe'.transfers = stripe.transfers
         /\ proc[p].pc = "rf_b_ledger" /\ proc'[p].pc = "done"
               /\ proc[p].doc.payment.refundNotes = "transfer_failed"
               /\ proc[p].doc.payment.stripeTransferId = 0 =>
                  /\ result'[p] = Response("refundPayment", "success")
                  /\ ledger'.refunds[Len(ledger'.refunds)].source = "platform"
                  /\ ledger'.status = booking.payment.status
                  /\ booking.payment.status \in {"refunded", "partially_refunded"}]_vars

\* the refund of a payment whose transfer had failed has been made
C6_Witness ==
    /\ result[1] = Response("refundPayment", "success")
    /\ ledger.metadata.transferFailed
    /\ booking.payment.refundNotes = "transfer_failed"
    /\ booking.payment.status \in {"refunded", "partially_refunded"}
    /\ Len(ledger.refunds) = 1
    /\ ledger.refunds[1].source = "platform"
    /\ stripe.refunds = 1

\* ------------------------------------------------- createPaymentIntent
\* slot p takes a createPaymentIntent request of the customer
RequestsIntent(p) == CPI_Read(p, TRUE, "customer")

\* the booking holds a pending payment with a usable client secret
PendingWithSecret ==
    /\ booking.payment.status = "pending"
    /\ booking.payment.stripePaymentIntentId # 0
    /\ booking.payment.stripeClientSecret # 0

\* C7: the call that creates the pending payment returns the client secret
\* the booking holds, the secret stays while the payment stays pending, and
\* a call made while it is pending returns that secret again, creates no
\* authorization and writes neither the booking nor the ledger record.
C7_PendingIntentIsReused ==
    [][\A p \in Procs :
         /\ proc[p].pc = "cpi_ledger" /\ proc'[p].pc = "done" =>
               /\ result'[p].code = "success"
               /\ result'[p].clientSecret = booking'.payment.stripeClientSecret
         /\ PendingWithSecret /\ booking'.payment.status = "pending" =>
               booking'.payment.stripeClientSecret = booking.payment.stripeClientSecret
         /\ PendingWithSecret /\ RequestsIntent(p) =>
               /\ result'[p] = [Response("createPaymentIntent", "success")
                                   EXCEPT !.clientSecret = booking.payment.stripeClientSecret]
               /\ proc'[p].pc = "done"
               /\ UNCHANGED <<booking, ledger, stripe, events>>]_vars

\* a call that asked the processor for nothing has returned the secret of
\* the pending payment
C7_Witness ==
    /\ proc[1].pc = "done" /\ proc[1].op = "createPaymentIntent" /\ proc[1].pi = 0
    /\ result[1].code = "success"
    /\ result[1].clientSecret = ClientSecretOf(1)
    /\ booking.payment.status = "pending"
    /\ Len(stripe.intents) = 1

\* C8: however many createPaymentIntent calls are made, one after the other,
\* again after a timeout or overlapping, the processor holds at most one
\* authorization for the booking's idempotency key, and every successful
\* call returns the client secret of that authorization.
C8_OneAuthorizationPerKey ==
    /\ Len(stripe.intents) <= 1
    /\ Cardinality({e \in stripe.idem : e.key = CreateIntentKey}) <= 1
    /\ \A p \in Procs :
          result[p].op = "createPaymentIntent" /\ result[p].code = "success" =>
             /\ Len(stripe.intents) = 1
             /\ result[p].clientSecret = ClientSecretOf(1)

\* two overlapping calls both asked the processor for an authorization,
\* after a call whose answer was lost; one has returned, the other is about
\* to
C8_Witness ==
    /\ proc[1].pc = "done" /\ proc[1].op = "createPaymentIntent" /\ proc[1].pi = 1
    /\ result[1].code = "success"
    /\ proc[2].pc = "cpi_ledger" /\ proc[2].pi = 1
    /\ stripe.timeouts = 1
    /\ Len(stripe.intents) = 1

\* C9: createPaymentIntent asks the processor for an authorization only
\* when the booking has no payment or its payment has failed or was
\* cancelled; the booking never has more than one authorization that has
\* not been cancelled.
C9_NewIntentOnlyAfterTerminal ==
    /\ \A p \in Procs :
          proc[p].pc = "cpi_create" =>
             /\ proc[p].doc = booking
             /\ ~HasPayment(booking) \/ booking.payment.status \in {"failed", "refunded"}
    /\ Cardinality({i \in 1..Len(stripe.intents) : stripe.intents[i] # "canceled"}) <= 1

\* a call is about to ask for an authorization after the payment failed
C9_Witness ==
    /\ proc[1].pc = "cpi_create"
    /\ booking.payment.status = "failed"
    /\ Len(stripe.intents) = 1

\* ------------------------------------------- captureAndTransferPayment
\* C10: however captureAndTransferPayment calls are retried or overlap, the
\* processor performs at most one capture and at most one transfer for the
\* booking.
C10_OneCaptureOneTransfer ==
    /\ stripe.captures <= 1
    /\ Len(stripe.transfers) <= 1
    /\ Cardinality({e \in stripe.idem : e.key \in {CaptureKey, TransferKey}}) <= 2

\* two overlapping calls both went through the capture and the transfer
C10_Witness ==
    /\ proc[1].pc = "done" /\ proc[1].op = "captureAndTransferPayment"
    /\ result[1].code = "success"
    /\ proc[2].pc = "ct_ok_ledger"
    /\ stripe.captures = 1
    /\ Len(stripe.transfers) = 1

\* slot p takes a captureAndTransferPayment request for the booking
RequestsCapture(p) == CT_Read(p, TRUE)

\* C11: captureAndTransferPayment on a booking whose payment is in a status
\* other than authorized (completed after an earlier call, for one) fails
\* with INVALID_STATUS at once: no capture and no transfer is asked of the
\* processor, and neither the booking nor the ledger record changes.  Every
\* payment has an authorization id, so the status check is always reached.
C11_CaptureNeedsAuthorized ==
    [][/\ HasPayment(booking') => booking'.payment.stripePaymentIntentId # 0
       /\ \A p \in Procs :
             HasPayment(booking) /\ booking.payment.status # "authorized"
             /\ RequestsCapture(p) =>
                /\ result'[p] = Response("captureAndTransferPayment", "INVALID_STATUS")
                /\ proc'[p].pc = "done"
                /\ UNCHANGED <<booking, ledger, stripe, events>>]_vars

\* a call made again after the capture and the transfer has been rejected
C11_Witness ==
    /\ result[1] = Response("captureAndTransferPayment", "INVALID_STATUS")
    /\ booking.payment.status = "completed"
    /\ stripe.captures = 1
    /\ Len(stripe.transfers) = 1

\* --------------------------------------------------- retried refunds
\* The processor accepted a refund for the request (amount a, 0 for the
\* whole payment) and the answer was lost: the refund is at the processor,
\* and no refund entry of the ledger record carries a refund id
RefundLost(a) ==
    /\ stripe.timeouts >= 1
    /\ stripe.refunds = 1
    /\ stripe.refunded = convertToStripeAmount(IF a = 0 THEN Total ELSE a)
    /\ \A i \in 1..Len(ledger.refunds) : ledger.refunds[i].refundId[1] # "re"

\* C12: when the processor has accepted the refund of a request and the
\* caller, after the timeout, makes the same request again, the call to
\* the processor produces no second refund and no second reversal.
C12_RetriedRefundIsNotRepeated ==
    [][\A p \in Procs :
         proc[p].pc = "rf_refund" /\ RefundLost(proc[p].amount)
         /\ proc'[p].pc # "rf_refund" =>
            /\ stripe'.refunds = stripe.refunds
            /\ stripe'.refunded = stripe.refunded
            /\ stripe'.transfers = stripe.transfers]_vars

\* ------------------------------------------------ handlers applied twice
\* The booking and the ledger record after the handler of event e has run
\* from its lookup to its last write, on booking b and ledger record l
Handled(e, b, l) ==
    LET pr == [IdleProc EXCEPT !.op = "handleWebhook", !.ev = e, !.doc = b] IN
    IF e.kind \in BookingKinds /\ FoundIn(b, e) /\ HasPayment(b) /\ Saves(pr)
    THEN LET h == Handle(pr) IN
         [booking |-> save(b, h),
          ledger |-> IF UpdatesLedger(e) THEN LedgerUpdated(l, h) ELSE l]
    ELSE [booking |-> b, ledger |-> l]

\* status, processor identifiers and refund entries of a booking and its
\* ledger record
Essentials(d) ==
    [status |-> d.booking.status,
     paymentStatus |-> d.booking.payment.status,
     ids |-> <<d.booking.payment.stripePaymentIntentId,
               d.booking.payment.stripeChargeId,
               d.booking.payment.stripeTransferId>>,
     ledgerStatus |-> d.ledger.status,
     ledgerIds |-> <<d.ledger.stripePaymentIntentId, d.ledger.stripeChargeId,
                     d.ledger.stripeTransferId>>,
     refunds |-> d.ledger.refunds]

\* C13: in every reachable state and for every event the processor has
\* emitted, running the event's handler twice in a row leaves the same
\* status, processor identifiers and refund entries, in the booking and in
\* the ledger record, as running it once.
C13_HandlersAreIdempotent ==
    \A e \in events :
        LET once == Handled(e, booking, ledger)
            twice == Handled(e, once.booking, once.ledger) IN
        Essentials(twice) = Essentials(once)

\* ------------------------------------------------- overlapping handlers
\* the payment status after the handlers of e1 and then of e2 have run, one
\* after the other, on the pending payment
StatusInOrder(e1, e2) ==
    LET first == Handled(e1, PendingBooking(booking.direct),
                         PendingLedger(booking.direct))
        second == Handled(e2, first.booking, first.ledger) IN
    second.booking.payment.status

\* C14: when the handlers of two events on the same booking have both run
\* to their end, overlapping or not, the persisted payment status is the
\* one that running the two handlers one after the other, in one order or
\* in the other, produces.
C14_OverlapIsSerializable ==
    (/\ \A p \in Procs : proc[p].pc = "idle"
     /\ Len(processedEvents) = 2) =>
        booking.payment.status \in
            {StatusInOrder(processedEvents[1], processedEvents[2]),
             StatusInOrder(processedEvents[2], processedEvents[1])}

\* ------------------------------------------- booking and ledger agree
\* C15: in every state in which no operation on the booking is in progress,
\* the payment status of the booking's payment summary equals the status of
\* its ledger record, whenever the ledger record exists.
C15_SummaryMatchesLedger ==
    (/\ \A p \in Procs : proc[p].pc = "idle"
     /\ ledger.exists) =>
        booking.payment.status = ledger.status

\* ------------------------------------------------ commission and payout
\* C16: for every payment created by createPaymentIntent, for any total
\* with VAT within the processor's bounds and any commission percentage,
\* the stored professionalPayout plus the stored platformCommission differs
\* from the stored totalWithVat by at most one minor currency unit.
C16_SplitAddsUp ==
    HasPayment(booking) =>
        LET sum == booking.payment.professionalPayout
                   + booking.payment.platformCommission
            diff == sum - booking.payment.totalWithVat IN
        /\ diff <= MinorUnit /\ -diff <= MinorUnit
        /\ ledger.professionalPayout + ledger.platformCommission = sum
        /\ ledger.totalWithVat = booking.payment.totalWithVat

\* a payment at the processor's maximum has been created with a commission
\* that is not a whole number of minor units
C16_Witness ==
    /\ booking.payment.status = "pending"
    /\ booking.payment.totalWithVat = 99999999 * MinorUnit
    /\ booking.payment.platformCommission % MinorUnit # 0
    /\ booking.payment.platformCommission > 0
    /\ booking.payment.professionalPayout > 0

\* ------------------------------------------------------- signatures
\* C17: a request to handleWebhook whose signature header is absent, or
\* whose signature does not verify, is answered 400 at once: no handler
\* runs, the booking, the ledger record and the payee are unchanged, and
\* the event is not added to the dedup set.
C17_UnsignedIsRejected ==
    [][\A p \in Procs, e \in events \cup AmbientEvents :
         /\ WH_Receive(p, "absent", e) =>
               result'[p] = Response("handleWebhook", "400 No signature")
         /\ WH_Receive(p, "invalid", e) =>
               result'[p] = Response("handleWebhook", "400 Webhook Error")
         /\ WH_Receive(p, "absent", e) \/ WH_Receive(p, "invalid", e) =>
               /\ proc'[p].pc = "done"
               /\ proc'[p].ev = NoEvent
               /\ UNCHANGED <<booking, ledger, payee, processedEvents>>]_vars

\* an event that would authorize the pending payment was sent with a bad
\* signature and answered 400
C17_Witness ==
    /\ result[1] = Response("handleWebhook", "400 Webhook Error")
    /\ Event("payment_intent.succeeded", 1, 0) \in events
    /\ booking.payment.status = "pending"
    /\ processedEvents = <<>>

\* ------------------------------------------------- handlers that throw
\* slot p answers 500 from the catch block of handleWebhook
Throws(p) ==
    /\ proc[p].op = "handleWebhook"
    /\ proc'[p].pc = "done"
    /\ result'[p] = Response("handleWebhook", "500")

\* C18: when a handler throws, handleWebhook answers 500 and the event is
\* not added to the dedup set; a later delivery of that event runs the
\* handler again and is not answered as a duplicate; and when the event is
\* at last acknowledged and marked, its effect has been applied: for
\* payment_intent.succeeded, a booking it authorized has a ledger record
\* that is authorized too.
C18_RedeliveryAppliesEffect ==
    [][\A p \in Procs :
         /\ Throws(p) =>
               /\ processedEvents' = processedEvents
               /\ ~InSet(processedEvents', proc[p].ev)
         /\ \A e \in events :
               ~InSet(processedEvents, e) /\ Delivers(p, e) =>
                  proc'[p].pc = "wh_find" /\ proc'[p].ev = e
         /\ Acknowledges(p) =>
               /\ InSet(processedEvents', proc[p].ev)
               /\ proc[p].ev.kind = "payment_intent.succeeded"
                  /\ booking'.payment.status = "authorized" =>
                     ledger'.status = "authorized"]_vars

\* ------------------------------------------------------------ disputes
\* slot p is at step pc of the handler of an event of the given kind, and
\* takes that step
HandlerStep(p, kind, pc) ==
    /\ proc[p].op = "handleWebhook"
    /\ proc[p].ev.kind = kind
    /\ proc[p].pc = pc
    /\ proc'[p].pc # pc

\* C19: the handler of a dispute-opened event for a completed payment sets
\* the status to refunded in the booking and in the ledger record and
\* appends exactly one refund entry with the dispute's amount, source
\* platform and the dispute's id; the handler of a dispute-closed event
\* with outcome won sets the status to completed in both; with any other
\* outcome it leaves the status of both as it was.
C19_DisputeOpenedThenClosed ==
    [][\A p \in Procs :
         LET e == proc[p].ev
             opened == "charge.dispute.created"
             closed == "charge.dispute.closed" IN
         /\ HandlerStep(p, opened, "wh_find") /\ booking.payment.status = "completed" =>
               proc'[p].pc = "wh_save" /\ ledger.exists
         /\ HandlerStep(p, opened, "wh_save") =>
               /\ booking'.payment.status = "refunded"
               /\ booking'.payment.refundSource = "platform"
               /\ proc'[p].pc = "wh_ledger"
         /\ HandlerStep(p, opened, "wh_ledger") /\ ledger.exists =>
               /\ ledger'.status = "refunded"
               /\ ledger'.refunds =
                     Append(ledger.refunds,
                            RefundEntry(booking.payment.totalWithVat, <<"dp", e.obj>>,
                                        "platform", "dispute_opened"))
               /\ booking' = booking
         /\ HandlerStep(p, closed, "wh_find") /\ HasPayment(booking)
               /\ booking.payment.stripeChargeId = e.obj =>
               proc'[p].pc = "wh_save"
         /\ HandlerStep(p, closed, "wh_save") /\ e.info = 1 =>
               /\ booking'.payment.status = "completed"
               /\ proc'[p].pc = "wh_ledger"
         /\ HandlerStep(p, closed, "wh_ledger") /\ ledger.exists =>
               /\ e.info = 1
               /\ ledger'.status = "completed"
               /\ ledger'.refunds = ledger.refunds
               /\ booking' = booking
         /\ HandlerStep(p, closed, "wh_save") /\ e.info # 1 =>
               /\ booking'.payment.status = booking.payment.status
               /\ ledger' = ledger
               /\ proc'[p].pc = "done"]_vars

\* a dispute on a completed payment was opened, recorded, and closed as won
C19_Witness ==
    /\ result[1] = Response("handleWebhook", "received")
    /\ proc[1].ev = Event("charge.dispute.closed", 1, 1)
    /\ InSet(processedEvents, Event("charge.dispute.created", 1, 0))
    /\ booking.payment.status = "completed"
    /\ booking.payment.refundNotes = "dispute_won"
    /\ ledger.status = "completed"
    /\ Len(ledger.refunds) = 1
    /\ ledger.refunds[1] = RefundEntry(Total, <<"dp", 1>>, "platform", "dispute_opened")

\* ------------------------------------------------ repeated partial refunds
\* the captured payment has refund entries, and a further amount a, less
\* than the total, fits in what is left of it
PartialFits(a) ==
    /\ booking.payment.status \in {"completed", "partially_refunded"}
    /\ booking.payment.stripePaymentIntentId # 0
    /\ ledger.exists
    /\ previousRefundTotal(ledger) > 0
    /\ a > 0 /\ a < booking.payment.totalWithVat
    /\ previousRefundTotal(ledger) + a <= booking.payment.totalWithVat

\* C20: a refund request for a partial amount that, added to the refund
\* entries already recorded, stays within the total is accepted: it passes
\* the validation, is sent to the processor, and leaves the payment
\* partially_refunded.
C20_FurtherPartialRefundAccepted ==
    [][\A p \in Procs :
         /\ \A a \in RefundAmounts :
               PartialFits(a) /\ RequestsRefund(p, a) => proc'[p].pc = "rf_check"
         /\ proc[p].pc = "rf_check" /\ proc'[p].pc # "rf_check"
               /\ PartialFits(proc[p].amount) => proc'[p].pc = "rf_refund"
         /\ proc[p].pc = "rf_b_ledger" /\ proc'[p].pc = "done"
               /\ proc[p].amount > 0
               /\ proc[p].amount < proc[p].doc.payment.totalWithVat =>
               /\ result'[p] = Response("refundPayment", "success")
               /\ booking'.payment.status = "partially_refunded"
               /\ ledger'.status = "partially_refunded"]_vars

\* ------------------------------------------------- the transfer amount
\* n is x / y rounded to the nearest whole number, halves upwards
IsRounded(n, x, y) == 2 * x - y < 2 * n * y /\ 2 * n * y <= 2 * x + y

\* C21: when the balance transaction of the captured charge reports a
\* positive amount S, the transfer requested is
\* max(1, round(S * clamp(payout / total, 0, 1))) minor units in the
\* settlement currency; when the inspection of the charge fails it is the
\* stored payout in minor units, in the booking currency; in both cases the
\* charge is the funding source of the transfer.
C21_TransferAmount ==
    [][\A p \in Procs :
         LET pay == proc[p].doc.payment
             P == Max(0, Min(pay.professionalPayout, pay.totalWithVat))
             T == pay.totalWithVat IN
         /\ \A cur \in {"eur", "usd"}, S \in SettledAmounts \ {0} :
               CT_Inspect(p, Settled(TRUE, cur, S)) =>
                  /\ proc'[p].tCurrency = cur
                  /\ proc'[p].tAmount >= 1
                  /\ \/ IsRounded(proc'[p].tAmount, S * P, T)
                     \/ proc'[p].tAmount = 1 /\ 2 * S * P < T
         /\ CT_Inspect(p, Settled(FALSE, "none", 0)) =>
               /\ proc'[p].tCurrency = "eur"
               /\ proc'[p].tAmount = 100 * pay.professionalPayout
         /\ proc[p].pc = "ct_transfer" /\ Len(stripe'.transfers) > Len(stripe.transfers) =>
               stripe'.transfers[Len(stripe'.transfers)] =
                  [amount |-> proc[p].tAmount, currency |-> proc[p].tCurrency,
                   source |-> ChargeOf(pay.stripePaymentIntentId), reversed |-> 0]]_vars

\* a charge for a booking of 120 with a payout of 102 settled at 13000 in
\* another currency, and 11050 was transferred from it
C21_Witness ==
    /\ result[1] = Response("captureAndTransferPayment", "success")
    /\ booking.payment.totalWithVat = 120
    /\ booking.payment.professionalPayout = 102
    /\ Len(stripe.transfers) = 1
    /\ stripe.transfers[1] = [amount |-> 11050, currency |-> "usd",
                              source |-> ChargeOf(1), reversed |-> 0]

\* ------------------------------------------- a new attempt after a failure
\* C22: a createPaymentIntent call made by the customer while the payment
\* is failed (booking payment_pending) is not blocked: it goes to the
\* processor, and when the processor answers the payment restarts at pending
\* with an authorization the processor has newly created, distinct from the
\* failed one.
C22_FailedRestartsWithNewAuthorization ==
    [][\A p \in Procs :
         LET failed == proc[p].doc.payment.stripePaymentIntentId IN
         /\ CPI_Read(p, TRUE, "customer") /\ booking.payment.status = "failed"
               /\ booking.status = "payment_pending" =>
               proc'[p].pc = "cpi_create"
         /\ proc[p].pc = "cpi_create" /\ proc[p].doc.payment.status = "failed"
               /\ proc'[p].pc = "cpi_save" =>
               /\ proc'[p].doc.payment.status = "pending"
               /\ proc'[p].pi # failed
               /\ Len(stripe'.intents) = Len(stripe.intents) + 1]_vars

\* ------------------------------------------- refunds outside their statuses
\* C23: a refund requested by a user who passes the authorization, for any
\* amount, while the payment is pending, failed, refunded or
\* partially_refunded is answered INVALID_STATUS at once: nothing is asked of
\* the processor, and the booking and the ledger record stay as they were.
C23_RefundNeedsAuthorizedOrCompleted ==
    [][\A p \in Procs, a \in RefundAmounts :
         RequestsRefund(p, a)
            /\ booking.payment.status \in {"pending", "failed", "refunded",
                                           "partially_refunded"} =>
            /\ result'[p] = Response("refundPayment", "INVALID_STATUS")
            /\ proc'[p].pc = "done"
            /\ UNCHANGED <<booking, ledger, stripe, events>>]_vars

\* a refund of part of a partially refunded payment has been refused
C23_Witness ==
    /\ result[1] = Response("refundPayment", "INVALID_STATUS")
    /\ booking.payment.status = "partially_refunded"
    /\ ledger.status = "partially_refunded" /\ Len(ledger.refunds) = 1
    /\ stripe.refunds = 1

\* ------------------------------------------------- who may ask for a refund
\* C24: a refund request for an existing booking passes the authorization
\* exactly when it comes from an administrator or from the booking's
\* customer; from anyone else it is answered UNAUTHORIZED at once, with
\* nothing asked of the processor and nothing changed, whatever the status
\* of the payment.
C24_RefundByAdminOrCustomer ==
    [][\A p \in Procs, user \in Users, a \in RefundAmounts :
         RF_Read(p, TRUE, user, a) =>
            IF user \in {"admin", "customer"}
            THEN result'[p].code # "UNAUTHORIZED"
            ELSE /\ result'[p] = Response("refundPayment", "UNAUTHORIZED")
                 /\ UNCHANGED <<booking, ledger, stripe, events>>]_vars

\* ------------------------------------- the refusals of createPaymentIntent
\* C25: createPaymentIntent is answered BOOKING_NOT_FOUND when the booking
\* does not exist, UNAUTHORIZED when the caller is not the booking's
\* customer, and PAYMENT_ALREADY_PROCESSED whenever the customer calls it
\* while the payment is authorized or completed; in each case at once, with
\* nothing asked of the processor and nothing changed.
C25_CreateIntentRefusals ==
    [][\A p \in Procs, found \in BOOLEAN, user \in Users :
         CPI_Read(p, found, user) =>
            LET code == IF ~found THEN "BOOKING_NOT_FOUND"
                        ELSE IF user # "customer" THEN "UNAUTHORIZED"
                        ELSE IF booking.payment.status \in {"authorized", "completed"}
                        THEN "PAYMENT_ALREADY_PROCESSED"
                        ELSE "none" IN
            code # "none" =>
               /\ result'[p] = Response("createPaymentIntent", code)
               /\ proc'[p].pc = "done"
               /\ UNCHANGED <<booking, ledger, stripe, events>>]_vars

\* the customer's call on a captured payment has been refused
C25_Witness ==
    /\ result[1] = Response("createPaymentIntent", "PAYMENT_ALREADY_PROCESSED")
    /\ booking.payment.status = "completed"
    /\ stripe.captures = 1

\* ------------------------------------------ a processor call that fails
\* C26: when the first processor call of an operation (the creation of the
\* authorization, the capture, the cancel, the creation of the refund) fails
\* or its answer is lost, the operation ends with STRIPE_ERROR, and the
\* booking with its payment summary and the ledger record are what they
\* were when the operation read them.
C26_ProcessorFailureChangesNothing ==
    [][\A p \in Procs, outcome \in {"error", "timeout"} :
         \/ CPI_Create(p, outcome)
         \/ CT_Capture(p, outcome)
         \/ RF_Cancel(p, outcome)
         \/ \E ts \in 1..MaxClock : RF_Refund(p, outcome, ts)
         => /\ result'[p] = Response(proc[p].op, "STRIPE_ERROR")
            /\ proc'[p].pc = "done"
            /\ UNCHANGED <<booking, ledger>>
            /\ booking.status = proc[p].doc.status
            /\ booking.payment = proc[p].doc.payment]_vars

\* a capture refused by the processor: the payment is still authorized
C26_Witness ==
    /\ result[1] = Response("captureAndTransferPayment", "STRIPE_ERROR")
    /\ booking.payment.status = "authorized" /\ ledger.status = "authorized"
    /\ ~booking.payment.capturedAt
    /\ stripe.captures = 0

\* ------------------------------------------------ the dedup set is bounded
\* C27: the dedup set never holds more than MAX_PROCESSED_EVENTS ids; a
\* delivery that marks a new id adds it as the newest, and when the set was
\* full removes exactly one id, the oldest inserted; a delivery of an id
\* that is in the set is answered as a duplicate and leaves the set alone.
C27_DedupSetIsBounded ==
    [][/\ Len(processedEvents') <= MAX_PROCESSED_EVENTS
       /\ processedEvents' # processedEvents =>
             LET id == processedEvents'[Len(processedEvents')] IN
             /\ ~InSet(processedEvents, id)
             /\ processedEvents' =
                   IF Len(processedEvents) = MAX_PROCESSED_EVENTS
                   THEN Append(Tail(processedEvents), id)
                   ELSE Append(processedEvents, id)
       /\ \A e \in events :
             InSet(processedEvents, e) /\ WH_Receive(1, "valid", e) =>
                /\ result'[1] = Response("handleWebhook", "duplicate")
                /\ UNCHANGED processedEvents]_vars

\* the set is full, the oldest id has been evicted for a new one, and a
\* delivery of an id still in the set has been answered as a duplicate
C27_Witness ==
    /\ Len(processedEvents) = MAX_PROCESSED_EVENTS
    /\ processedEvents[1] = Event("customer.created", 2, 0)
    /\ processedEvents[MAX_PROCESSED_EVENTS]
          = Event("customer.created", MAX_PROCESSED_EVENTS + 1, 0)
    /\ result[1] = Response("handleWebhook", "duplicate")

\* ------------------------------------ the capture is recorded before payout
\* C28: whenever captureAndTransferPayment sends the transfer request to the
\* processor, whatever becomes of the request, the payment summary stored on
\* the booking already has capturedAt and the id of the charge the capture
\* produced.
C28_CaptureRecordedBeforeTransfer ==
    [][\A p \in Procs, outcome \in Outcomes :
         CT_Transfer(p, outcome) =>
            /\ booking.payment.capturedAt
            /\ booking.payment.stripeChargeId # 0
            /\ booking.payment.stripeChargeId
                  = ChargeOf(proc[p].doc.payment.stripePaymentIntentId)
            /\ stripe.captures >= 1]_vars

\* the transfer was refused; the stored summary, still authorized, has the
\* capture and the charge
C28_Witness ==
    /\ proc[1].pc = "ct_fail_save" /\ proc[1].doc.direct
    /\ booking.payment.status = "authorized"
    /\ booking.payment.capturedAt
    /\ booking.payment.stripeChargeId = ChargeOf(1)
    /\ stripe.captures = 1 /\ Len(stripe.transfers) = 0

\* ------------------------------------------- a failure that arrives late
\* C29: the handler of an authorization-failed event that finds the payment
\* completed, refunded or partially_refunded changes neither the booking
\* nor the ledger record.
C29_LateFailureIsNoOp ==
    [][\A p \in Procs :
         /\ proc[p].op = "handleWebhook"
         /\ proc[p].ev.kind = "payment_intent.payment_failed"
         => LET Final(st) == st \in {"completed", "refunded", "partially_refunded"} IN
            /\ proc[p].pc = "wh_find" /\ Final(booking.payment.status) =>
                  proc'[p].pc = "done"
            /\ proc[p].pc = "wh_save" /\ Final(booking.payment.status) =>
                  booking' = booking
            /\ proc[p].pc = "wh_ledger" /\ Final(ledger.status) =>
                  ledger' = ledger]_vars

\* ------------------------------------- one event delivered twice at once
\* C30: when a handler is still at its writes while another delivery of the
\* same event id has already been handled and marked (both passed the dedup
\* check before either marked the id), its writes change nothing in the
\* status, the processor identifiers and the refund entries of the booking
\* and the ledger record: the state is the one a single delivery leaves.
C30_OverlappingDeliveriesActOnce ==
    [][\A p \in Procs :
         /\ proc[p].op = "handleWebhook"
         /\ proc[p].pc \in {"wh_save", "wh_ledger"}
         /\ proc'[p].pc # proc[p].pc
         /\ InSet(processedEvents, proc[p].ev)
         => Essentials([booking |-> booking', ledger |-> ledger'])
               = Essentials([booking |-> booking, ledger |-> ledger])]_vars

\* ------------------------------------------- cancelling an authorization
\* C31: a refund requested while the payment is authorized goes to the
\* cancel of the authorization; the cancel creates no refund at the
\* processor and, unless the processor call fails, leaves the authorization
\* canceled; the booking is saved with payment status
\* refunded and status cancelled; the ledger record gets status refunded and
\* exactly one more refund entry, with source platform and no refund id, and
\* the request is answered with success.
C31_AuthorizedRefundCancels ==
    [][\A p \in Procs :
         /\ \A a \in RefundAmounts :
               RequestsRefund(p, a) /\ booking.payment.status = "authorized" =>
                  proc'[p].pc = "rf_cancel"
         /\ proc[p].pc = "rf_cancel" /\ proc'[p].pc # "rf_cancel" =>
               /\ stripe'.refunds = stripe.refunds /\ stripe'.refunded = stripe.refunded
               /\ \/ /\ proc'[p].pc = "rf_a_save"
                     /\ stripe'.intents[proc[p].doc.payment.stripePaymentIntentId]
                           = "canceled"
                  \/ result'[p] = Response("refundPayment", "STRIPE_ERROR")
         /\ proc[p].pc = "rf_a_save" /\ proc'[p].pc # "rf_a_save" =>
               /\ booking'.payment.status = "refunded"
               /\ booking'.payment.refundSource = "platform"
               /\ booking'.status = "cancelled"
               /\ proc'[p].pc = "rf_a_ledger"
         /\ proc[p].pc = "rf_a_ledger" /\ proc'[p].pc # "rf_a_ledger" =>
               /\ ledger'.status = "refunded"
               /\ Len(ledger'.refunds) = Len(ledger.refunds) + 1
               /\ SubSeq(ledger'.refunds, 1, Len(ledger.refunds)) = ledger.refunds
               /\ LET entry == ledger'.refunds[Len(ledger'.refunds)] IN
                  entry.source = "platform" /\ entry.refundId = <<"none", 0>>
               /\ result'[p] = Response("refundPayment", "cancelled")
               /\ UNCHANGED <<booking, stripe>>]_vars

\* the authorization has been cancelled and the books say refunded
C31_Witness ==
    /\ result[1] = Response("refundPayment", "cancelled")
    /\ booking.status = "cancelled" /\ booking.payment.status = "refunded"
    /\ ledger.status = "refunded" /\ Len(ledger.refunds) = 1
    /\ ledger.refunds[1].source = "platform"
    /\ stripe.intents[1] = "canceled" /\ stripe.refunds = 0

\* --------------------------------------------- refunding a captured payment
\* C32: in a refund of a completed payment, a refund answered by the
\* processor with no transfer recorded is booked with source platform; with
\* a transfer recorded the reversal is asked for, and the source is
\* professional exactly when the reversal is answered, platform with a note
\* otherwise, the refund going on in either case; the booking is saved with
\* status partially_refunded when an amount below totalWithVat was given and
\* refunded otherwise; the ledger record gets that status and exactly one
\* more refund entry, with that source and the processor's refund id, and
\* the request is answered with success.
C32_CompletedRefundIsBooked ==
    [][\A p \in Procs :
         LET pay == proc[p].doc.payment
             partial == proc[p].amount # 0 /\ proc[p].amount < pay.totalWithVat IN
         /\ proc[p].pc = "rf_refund" /\ proc'[p].pc \notin {"rf_refund", "done"} =>
               IF pay.stripeTransferId # 0
               THEN proc'[p].pc = "rf_reversal"
               ELSE /\ proc'[p].pc = "rf_b_save"
                    /\ proc'[p].doc.payment.refundSource = "platform"
         /\ \A outcome \in Outcomes :
               RF_Reversal(p, outcome) =>
                  LET reversed == outcome = "ok" /\ stripe'.transfers # stripe.transfers IN
                  /\ proc'[p].pc = "rf_b_save"
                  /\ proc'[p].doc.payment.refundSource
                        = IF reversed THEN "professional" ELSE "platform"
                  /\ ~reversed => proc'[p].doc.payment.refundNotes = "reversal_failed"
         /\ proc[p].pc = "rf_b_save" /\ proc'[p].pc # "rf_b_save" =>
               /\ booking'.payment.status
                     = IF partial THEN "partially_refunded" ELSE "refunded"
               /\ booking'.payment.refundSource = pay.refundSource
               /\ proc'[p].pc = "rf_b_ledger"
         /\ proc[p].pc = "rf_b_ledger" /\ proc'[p].pc # "rf_b_ledger" =>
               /\ ledger'.status = IF partial THEN "partially_refunded" ELSE "refunded"
               /\ Len(ledger'.refunds) = Len(ledger.refunds) + 1
               /\ SubSeq(ledger'.refunds, 1, Len(ledger.refunds)) = ledger.refunds
               /\ LET entry == ledger'.refunds[Len(ledger'.refunds)] IN
                  /\ entry.source = pay.refundSource
                  /\ entry.refundId = <<"re", proc[p].rf>>
                  /\ entry.source = "platform" /\ pay.stripeTransferId # 0 =>
                        entry.notes = "reversal_failed"
               /\ result'[p] = Response("refundPayment", "success")]_vars

\* a partial refund taken back from the professional, and booked so
C32_Witness ==
    /\ result[1] = Response("refundPayment", "success")
    /\ booking.payment.status = "partially_refunded"
    /\ ledger.status = "partially_refunded" /\ Len(ledger.refunds) = 1
    /\ ledger.refunds[1].source = "professional"
    /\ Len(stripe.transfers) = 1 /\ stripe.transfers[1].reversed > 0

\* ------------------------------------------------ the size of the reversal
\* C33: when a partial refund of amount a is made on a payment whose payout
\* was transferred, the reversal the processor performs is the transferred
\* amount times a / totalWithVat, rounded to the minor unit, and no more
\* than what was transferred.
C33_ReversalIsProportional ==
    [][\A p \in Procs :
         LET pay == proc[p].doc.payment
             a == proc[p].amount
             id == pay.stripeTransferId IN
         /\ proc[p].pc = "rf_reversal"
         /\ a # 0 /\ a < pay.totalWithVat
         /\ stripe'.transfers # stripe.transfers
         => LET transferred == stripe.transfers[id].amount
                reversal == stripe'.transfers[id].reversed - stripe.transfers[id].reversed IN
            /\ IsRounded(reversal, transferred * a, pay.totalWithVat)
            /\ reversal <= transferred]_vars

\* ------------------------------------------------ a disconnected payee
\* C34: the handler of an account-disconnected event leaves the payee with
\* chargesEnabled and payoutsEnabled false and account status restricted;
\* charges stay disabled until the handler of an account-updated event that
\* reports charges enabled saves the payee; and while they are disabled a
\* createPaymentIntent call of the customer that needs a new authorization is
\* refused as payee not ready, with nothing asked of the processor and
\* nothing changed.
C34_DisconnectedPayeeBlocksIntents ==
    [][\A p \in Procs :
         /\ proc[p].pc = "wh_save_user" /\ proc'[p].pc = "done"
               /\ proc[p].ev.kind = "account.application.deauthorized" =>
               /\ ~payee'.chargesEnabled /\ ~payee'.payoutsEnabled
               /\ payee'.accountStatus = "restricted"
         /\ ~payee.chargesEnabled /\ payee'.chargesEnabled =>
               \E q \in Procs : /\ proc[q].pc = "wh_save_user"
                                /\ proc'[q].pc = "done"
                                /\ proc[q].ev = Event("account.updated", 1, 0)
         /\ CPI_Read(p, TRUE, "customer") /\ NeedsIntent(booking)
               /\ booking.status \in {"quote_accepted", "payment_pending", "booked"}
               /\ ~payee.chargesEnabled =>
               /\ result'[p] = Response("createPaymentIntent",
                                        "PROFESSIONAL_STRIPE_NOT_READY")
               /\ proc'[p].pc = "done"
               /\ UNCHANGED <<booking, ledger, stripe, events>>]_vars

\* the payee has disconnected and the customer's call has been refused
C34_Witness ==
    /\ result[1] = Response("createPaymentIntent", "PROFESSIONAL_STRIPE_NOT_READY")
    /\ payee.accountStatus = "restricted"
    /\ ~payee.chargesEnabled /\ ~payee.payoutsEnabled
    /\ InSet(processedEvents, Event("account.application.deauthorized", 0, 0))
    /\ stripe.intents = <<>>

\* ----------------------------------------- events that are only recorded
\* C35: the delivery of an event of a kind the dispatch does not know, of a
\* payout.paid event or of a transfer.reversed event, not seen before, ends
\* with the acknowledgement "received"; from its receipt to its
\* acknowledgement the booking, the ledger record and the payee stay as they
\* were, and the dedup set changes only by gaining the id of the event.
C35_RecordedOnlyEvents ==
    [][\A p \in Procs :
         LET Recorded(e) ==
                /\ result'[p] = Response("handleWebhook", "received")
                /\ InSet(processedEvents', e)
                /\ processedEvents' = Append(processedEvents, e)
             Untouched == UNCHANGED <<booking, ledger, payee, stripe>> IN
         /\ \A e \in events \cup AmbientEvents :
               /\ e.kind \in {"customer.created", "payout.paid", "transfer.reversed"}
               /\ ~InSet(processedEvents, e)
               /\ WH_Receive(p, "valid", e)
               => /\ Untouched
                  /\ IF e.kind = "transfer.reversed"
                     THEN proc'[p].pc = "wh_find" /\ UNCHANGED processedEvents
                     ELSE proc'[p].pc = "done" /\ Recorded(e)
         /\ proc[p].op = "handleWebhook" /\ proc[p].ev.kind = "transfer.reversed"
               /\ proc[p].pc = "wh_find" /\ proc'[p].pc # "wh_find"
               => Untouched /\ proc'[p].pc = "done" /\ Recorded(proc[p].ev)]_vars

\* a transfer.reversed event and a payout.paid event have been acknowledged
\* after a refund taken back from the professional
C35_Witness ==
    /\ result[1] = Response("handleWebhook", "received")
    /\ processedEvents = <<Event("payout.paid", 0, 0), Event("transfer.reversed", 1, 0)>>
    /\ booking.payment.stripeTransferId = 1
    /\ ledger.status \in {"refunded", "partially_refunded"}
    /\ Len(ledger.refunds) = 1 /\ ledger.refunds[1].source = "professional"

\* --------------------------------------------- the mirror of a refund
\* C36: the handler of a charge.refunded event saves the booking with
\* payment status refunded when the amount the processor reports refunded
\* is at least the amount of the charge and partially_refunded otherwise,
\* and with status refunded, changing nothing else of the summary; it then
\* writes that payment status to the ledger record and leaves the record's
\* refund entries, amounts and identifiers as they were.
C36_MirrorAddsNoEntry ==
    [][\A p \in Procs :
         proc[p].op = "handleWebhook" /\ proc[p].ev.kind = "charge.refunded" =>
            LET st == IF proc[p].ev.info >= convertToStripeAmount(booking.payment.totalWithVat)
                      THEN "refunded" ELSE "partially_refunded" IN
            /\ proc[p].pc = "wh_save" /\ proc'[p].pc # "wh_save" =>
                  /\ booking'.status = "refunded"
                  /\ booking'.payment = [booking.payment EXCEPT !.status = st]
                  /\ ledger' = ledger
            /\ proc[p].pc = "wh_ledger" /\ proc'[p].pc # "wh_ledger" =>
                  /\ ledger' = [ledger EXCEPT !.status = booking.payment.status]
                  /\ ledger'.refunds = ledger.refunds
                  /\ booking' = booking]_vars

\* a partial refund made by refundPayment and mirrored by the processor's
\* event: one entry, that of refundPayment
C36_Witness ==
    /\ result[1] = Response("handleWebhook", "received")
    /\ InSet(processedEvents, Event("charge.refunded", 1, 100))
    /\ booking.payment.status = "partially_refunded" /\ booking.status = "refunded"
    /\ ledger.status = "partially_refunded"
    /\ Len(ledger.refunds) = 1 /\ ledger.refunds[1].refundId = <<"re", 1>>
    /\ stripe.refunds = 1

\* ------------------------------------------ payees found through a project
\* C37: for every booking with an authorized payment,
\* captureAndTransferPayment asks the processor for the transfer once the
\* capture is recorded, whether the payee is the booking's own professional
\* or was found through the related project, so that it ends with
\* TRANSFER_FAILED only when the processor did not answer the transfer
\* request with a transfer.
C37_TransferForEveryPayee ==
    [][\A p \in Procs :
         proc[p].pc = "ct_inspect" /\ proc'[p].pc # "ct_inspect" =>
            proc'[p].pc = "ct_transfer"]_vars

\* ------------------------------------------------- refunds after a dispute
\* the dispute of the charge was opened and closed as won, both events were
\* handled, the payment, captured and transferred before, is completed
\* again, and the ledger record holds no refund entry other than what the
\* dispute handlers wrote
DisputeWonAndHandled ==
    /\ stripe.dispute = "won"
    /\ \E e \in events : e.kind = "charge.dispute.created" /\ InSet(processedEvents, e)
    /\ \E e \in events : e.kind = "charge.dispute.closed" /\ InSet(processedEvents, e)
    /\ booking.payment.status = "completed"
    /\ booking.payment.capturedAt /\ booking.payment.stripeTransferId # 0
    /\ ledger.exists /\ ledger.status = "completed"
    /\ \A i \in 1..Len(ledger.refunds) : ledger.refunds[i].notes = "dispute_opened"

\* C38: once a dispute of a completed payment without other refunds was
\* opened and won, and both events were handled, a refundPayment request
\* for a partial amount a <= totalWithVat that reaches the validation
\* against the ledger is not rejected with REFUND_EXCEEDS_TOTAL.
C38_RefundableAfterDisputeWon ==
    \A p \in Procs :
        /\ DisputeWonAndHandled
        /\ proc[p].op = "refundPayment" /\ proc[p].pc = "rf_check"
        /\ proc[p].amount <= proc[p].doc.payment.totalWithVat
        => ~ExceedsTotal(proc[p], ledger)

\* ------------------------------------------- transfers on the ledger record
\* C39: whenever no request or event is being handled, a ledger record that
\* carries a transfer id or transferredAt has status completed, refunded or
\* partially_refunded, never pending, authorized or failed.
C39_TransferredMeansCaptured ==
    (\A p \in Procs : proc[p].pc = "idle") /\ ledger.exists
        /\ (ledger.stripeTransferId # 0 \/ ledger.transferredAt)
    => ledger.status \in {"completed", "refunded", "partially_refunded"}

\* ------------------------------------------------ confirming the payment
\* slot p takes a confirmPayment request of the customer naming id
ConfirmsPayment(p, id) == CP_Read(p, TRUE, "customer", id)

\* C40: confirmPayment saves the booking as authorized and booked only for
\* the authorization whose id is stored on the booking and which the
\* processor reports as held (requires_capture); a request on a payment
\* that is already authorized or completed is answered with success, and a
\* request on any other payment that names an id different from the stored
\* one is rejected with PAYMENT_INTENT_MISMATCH, in both cases with the
\* booking, the ledger record and the processor left as they were.
C40_ConfirmOnlyHeldAuthorization ==
    [][\A p \in Procs :
         /\ proc[p].op = "confirmPayment" /\ proc[p].pc = "cp_retrieve"
               /\ proc'[p].pc = "cp_save" =>
               /\ proc[p].pi = booking.payment.stripePaymentIntentId
               /\ IntentStatus(stripe, proc[p].pi) = "requires_capture"
         /\ proc[p].op = "confirmPayment" /\ proc'[p] # proc[p]
               /\ booking' # booking =>
               /\ proc[p].pc = "cp_save"
               /\ proc[p].pi = booking.payment.stripePaymentIntentId
               /\ booking'.payment.status = "authorized"
               /\ booking'.status = "booked"
         /\ \A id \in IntentArgs :
               ConfirmsPayment(p, id) =>
                  /\ booking.payment.status \in {"authorized", "completed"} =>
                        /\ result'[p] = Response("confirmPayment", "alreadyProcessed")
                        /\ UNCHANGED <<booking, ledger, stripe, events>>
                  /\ booking.payment.status \notin {"authorized", "completed"}
                        /\ booking.payment.stripePaymentIntentId \notin {0, id} =>
                        /\ result'[p] = Response("confirmPayment", "PAYMENT_INTENT_MISMATCH")
                        /\ UNCHANGED <<booking, ledger, stripe, events>>]_vars

\* the customer confirmed the held authorization 1, and the payment is
\* authorized on the booking and on the ledger record
C40_Witness ==
    /\ result[1] = Response("confirmPayment", "authorized")
    /\ booking.payment.status = "authorized" /\ booking.status = "booked"
    /\ booking.payment.stripePaymentIntentId = 1
    /\ ledger.status = "authorized"
    /\ stripe.intents[1] = "requires_capture"
====
